---------------------------- MODULE Spec2Model ----------------------------
(***************************************************************************)
(* postcss-token-utilities: the utility universe generator, the token and  *)
(* variant parsers, the usage extractor and the two process-wide caches    *)
(* (universeCache, fileScanCache) of src/src/index.ts, with the build pass *)
(* (the plugin's Once handler) as a state machine.                         *)
(*                                                                         *)
(* Strings are TLA+ strings; positions are 0-based as in JavaScript.       *)
(***************************************************************************)
EXTENDS Integers, Sequences, FiniteSets, TLC

\* null or undefined, where a string is expected.
NULL == "<null>"

\* null or undefined, where an object is expected.
NONE == [none |-> TRUE]

Min(a, b) == IF a < b THEN a ELSE b

Max(a, b) == IF a > b THEN a ELSE b

\* The least element of a non-empty set of positions.
least(S) == CHOOSE i \in S : \A j \in S : i <= j

(***************************************************************************)
(* JavaScript string primitives.                                           *)
(***************************************************************************)

\* String.prototype.substring(start, end), both clamped to the length.
substring(str, start, end) ==
    SubSeq(str, Min(Max(start, 0), Len(str)) + 1, Min(Max(end, 0), Len(str)))

\* str[i], "" when out of range.
charAt(str, i) == substring(str, i, i + 1)

\* String.prototype.startsWith, optionally at a position.
startsWithAt(str, sub, pos) == substring(str, pos, pos + Len(sub)) = sub

startsWith(str, sub) == startsWithAt(str, sub, 0)

endsWith(str, sub) ==
    /\ Len(str) >= Len(sub)
    /\ substring(str, Len(str) - Len(sub), Len(str)) = sub

includes(str, sub) == \E i \in 0..Len(str) : startsWithAt(str, sub, i)

\* String.prototype.indexOf(sub, from): the least position >= from, or -1.
indexOf(str, sub, from) ==
    LET hits == {i \in Min(from, Len(str))..Len(str) : startsWithAt(str, sub, i)}
    IN  IF hits = {} THEN -1 ELSE least(hits)

\* Array.prototype.join.
RECURSIVE join(_, _)
join(arr, sep) ==
    IF Len(arr) = 0 THEN ""
    ELSE IF Len(arr) = 1 THEN arr[1]
    ELSE arr[1] \o sep \o join(Tail(arr), sep)

\* The elements of an array, as a set.
Range(arr) == {arr[i] : i \in 1..Len(arr)}

(***************************************************************************)
(* Regular-expression character classes.                                   *)
(***************************************************************************)

LowerChars ==
    {"a", "b", "c", "d", "e", "f", "g", "h", "i", "j", "k", "l", "m",
     "n", "o", "p", "q", "r", "s", "t", "u", "v", "w", "x", "y", "z"}

UpperChars ==
    {"A", "B", "C", "D", "E", "F", "G", "H", "I", "J", "K", "L", "M",
     "N", "O", "P", "Q", "R", "S", "T", "U", "V", "W", "X", "Y", "Z"}

DigitChars == {"0", "1", "2", "3", "4", "5", "6", "7", "8", "9"}

\* \s
SpaceChars == {" ", "\t", "\n", "\r", "\f"}

\* \w
WordChars == LowerChars \cup UpperChars \cup DigitChars \cup {"_"}

\* The backtick cannot be written inside a TLA+ string: the texts of this
\* module write the tilde for it, and never use the tilde otherwise.
BACKTICK == "~"

\* A quote character: double quote, single quote or backtick.
QuoteChars == {"\"", "'", BACKTICK}

\* [a-zA-Z0-9_:.-]
ClassChars == WordChars \cup {":", ".", "-"}

\* The end of the maximal run of characters of set starting at pos.
runEnd(str, pos, set) ==
    IF pos >= Len(str) THEN pos
    ELSE least({q \in pos..Len(str) : q = Len(str) \/ charAt(str, q) \notin set})

\* The end of the maximal run of characters not in set starting at pos.
runEndNot(str, pos, set) ==
    IF pos >= Len(str) THEN pos
    ELSE least({q \in pos..Len(str) : q = Len(str) \/ charAt(str, q) \in set})

(***************************************************************************)
(* ClassExtractor (index.ts 92-158).                                       *)
(***************************************************************************)

DEFAULT_CLASS_MATCHER ==
    <<"className", "class", "classList", "class:list", "clsx", "cn">>

\* The longest candidate isValidClassName accepts.
MaxClassLen == 100

\* How much text after a matcher occurrence extract looks at.
ChunkLen == 500

\* /^[a-zA-Z0-9_:.-]+$/.test(str)
matchesClassPattern(str) ==
    /\ Len(str) >= 1
    /\ \A i \in 0..(Len(str) - 1) : charAt(str, i) \in ClassChars

\* isValidClassName that rejects a candidate of the longest length.
isValidClassNameShorter(str) ==
    IF str = "" \/ Len(str) = 0 \/ Len(str) >= MaxClassLen THEN FALSE
    ELSE IF \/ includes(str, "://")
            \/ includes(str, "\\")
            \/ startsWith(str, "/")
            \/ includes(str, "(")
            \/ includes(str, "{")
            \/ includes(str, "[")
         THEN FALSE
    ELSE matchesClassPattern(str)

\* ClassExtractor.isValidClassName(str)
isValidClassName(str) ==
    IF str = "" \/ Len(str) = 0 \/ Len(str) > MaxClassLen THEN FALSE
    ELSE IF \/ includes(str, "://")
            \/ includes(str, "\\")
            \/ startsWith(str, "/")
            \/ includes(str, "(")
            \/ includes(str, "{")
            \/ includes(str, "[")
         THEN FALSE
    ELSE matchesClassPattern(str)

\* content.split(/\s+/) followed by trim(): the pieces between the maximal
\* whitespace runs, from position pos on (an empty piece is kept, as split
\* keeps it, and is rejected by isValidClassName).
RECURSIVE splitWhitespace(_, _)
splitWhitespace(str, pos) ==
    LET e == runEndNot(str, pos, SpaceChars)
        n == runEnd(str, e, SpaceChars)
    IN  IF e >= Len(str) THEN <<substring(str, pos, e)>>
        ELSE <<substring(str, pos, e)>> \o splitWhitespace(str, n)

\* text.matchAll(quoted-string pattern), from lastIndex pos: the first capture
\* group of every match, in order. A match starts at a quote character that
\* is followed by at least one non-quote character and then by a quote
\* character (of any of the three kinds).
RECURSIVE quotedStrings(_, _)
quotedStrings(text, pos) ==
    LET close(p) == runEndNot(text, p + 1, QuoteChars)
        hits == {p \in pos..(Len(text) - 1) :
                    /\ charAt(text, p) \in QuoteChars
                    /\ close(p) > p + 1
                    /\ close(p) < Len(text)}
    IN  IF hits = {} THEN <<>>
        ELSE <<substring(text, least(hits) + 1, close(least(hits)))>>
                 \o quotedStrings(text, close(least(hits)) + 1)

\* Array.prototype.flat: the concatenation of an array of arrays.
RECURSIVE flat(_)
flat(arrs) == IF Len(arrs) = 0 THEN <<>> ELSE Head(arrs) \o flat(Tail(arrs))

\* A JavaScript Set is an array without duplicates, in insertion order:
\* adding the elements of xs in order keeps the first occurrence of each.
setOf(xs) ==
    LET firsts == {i \in 1..Len(xs) : \A j \in 1..(i - 1) : xs[j] # xs[i]}
    IN  [k \in 1..Cardinality(firsts) |->
            xs[CHOOSE i \in firsts : Cardinality({j \in firsts : j < i}) = k - 1]]

setAdd(set, x) == IF x \in Range(set) THEN set ELSE Append(set, x)

\* The forEach over the pieces of one quoted string: the valid ones, in order.
validPieces(str) == SelectSeq(splitWhitespace(str, 0), isValidClassName)

\* extractQuotedStrings(text, classes): the class names it adds, in order.
extractQuotedStrings(text) ==
    LET strs == quotedStrings(text, 0)
    IN  flat([i \in 1..Len(strs) |-> validPieces(strs[i])])

\* The positions the while loop of extract visits for one matcher.
RECURSIVE occurrences(_, _, _)
occurrences(content, matcher, index) ==
    LET at == indexOf(content, matcher, index)
    IN  IF at = -1 THEN <<>>
        ELSE <<at>> \o occurrences(content, matcher, at + Len(matcher))

\* The class names the while loop adds for one matcher, in order.
extractMatcher(content, matcher) ==
    LET occ == occurrences(content, matcher, 0)
    IN  flat([i \in 1..Len(occ) |->
                extractQuotedStrings(substring(content, occ[i], occ[i] + ChunkLen))])

\* new ClassExtractor(matchers).matchers
ClassExtractor(matchers) == DEFAULT_CLASS_MATCHER \o matchers

\* ClassExtractor.extract(content): the returned Set.
extract(matchers, content) ==
    setOf(flat([i \in 1..Len(matchers) |-> extractMatcher(content, matchers[i])]))

(***************************************************************************)
(* Rule tables (default-config.ts). The model carries an excerpt of each   *)
(* table: the rows are the source's, the tables are shorter.               *)
(*   StaticRule  [class, css]                                              *)
(*   TokenRule   [token, prefix, css], css naming the builder function     *)
(*   VariantRule [name, type], with condition (media), selector (ancestor) *)
(***************************************************************************)

DEFAULT_STATIC_RULES ==
    << [class |-> "flex", css |-> "display: flex"],
       [class |-> "hidden", css |-> "display: none"] >>

DEFAULT_TOKEN_RULES ==
    << [token |-> "spacing", prefix |-> "p-", css |-> [fn |-> "decl", prop |-> "padding"]],
       [token |-> "color", prefix |-> "bg-", css |-> [fn |-> "bg"]],
       [token |-> "color", prefix |-> "border-", css |-> [fn |-> "decl", prop |-> "border-color"]],
       [token |-> "radius", prefix |-> "rounded-", css |-> [fn |-> "rounded"]],
       [token |-> "border", prefix |-> "border-", css |-> [fn |-> "decl", prop |-> "border-width"]] >>

DEFAULT_VARIANT_RULES ==
    << [name |-> "hover", type |-> "pseudo"],
       [name |-> "group-hover", type |-> "ancestor", selector |-> ".group:hover"],
       [name |-> "group-active", type |-> "ancestor", selector |-> ".group:active"],
       [name |-> "group-active", type |-> "ancestor", selector |-> ".group:active >"] >>

\* TokenRule.css(key, value): the builder functions of the token rules.
applyCss(css, k, v) ==
    CASE css.fn = "decl" -> css.prop \o ": " \o v \o ";"
      [] css.fn = "bg" ->
            IF startsWith(k, "gradient-")
            THEN "background: linear-gradient(to right, " \o v \o ", transparent);"
            ELSE "background-color: " \o v \o ";"
      [] css.fn = "rounded" ->
            IF k = "none" THEN "border-radius: 0;"
            ELSE IF k = "full" THEN "border-radius: 9999px;"
            ELSE "border-radius: " \o v \o ";"

(***************************************************************************)
(* A JavaScript object used as a dictionary: an array of <<key, value>>    *)
(* in property order (array-index keys ascending, then the other keys in   *)
(* insertion order), which is the order of Object.entries.                 *)
(***************************************************************************)

digitValue(c) ==
    CHOOSE n \in 0..9 : <<"0", "1", "2", "3", "4", "5", "6", "7", "8", "9">>[n + 1] = c

\* a < b for two digit strings of the same length.
RECURSIVE digitsLess(_, _)
digitsLess(a, b) ==
    IF Len(a) = 0 THEN FALSE
    ELSE IF Head(a) = Head(b) THEN digitsLess(Tail(a), Tail(b))
    ELSE digitValue(Head(a)) < digitValue(Head(b))

\* An array index: a canonical decimal numeral below 2^32 - 1.
isArrayIndex(key) ==
    /\ Len(key) >= 1
    /\ \A i \in 0..(Len(key) - 1) : charAt(key, i) \in DigitChars
    /\ (Len(key) > 1 => charAt(key, 0) # "0")
    /\ \/ Len(key) < 10
       \/ Len(key) = 10 /\ digitsLess(key, "4294967295")

\* a < b as numbers, for two array indices.
indexLess(a, b) ==
    \/ Len(a) < Len(b)
    \/ Len(a) = Len(b) /\ digitsLess(a, b)

objHas(obj, key) == \E i \in 1..Len(obj) : obj[i][1] = key

objGet(obj, key) == obj[CHOOSE i \in 1..Len(obj) : obj[i][1] = key][2]

\* obj[key] = value
objSet(obj, key, value) ==
    IF objHas(obj, key)
    THEN [i \in 1..Len(obj) |-> IF obj[i][1] = key THEN <<key, value>> ELSE obj[i]]
    ELSE IF isArrayIndex(key)
    THEN LET before == {i \in 1..Len(obj) :
                            isArrayIndex(obj[i][1]) /\ indexLess(obj[i][1], key)}
             n == Cardinality(before)
         IN  SubSeq(obj, 1, n) \o <<(<<key, value>>)>> \o SubSeq(obj, n + 1, Len(obj))
    ELSE Append(obj, <<key, value>>)

(***************************************************************************)
(* UtilityGenerator (index.ts 161-279).                                    *)
(***************************************************************************)

\* css.match(the :root block pattern): capture group 1 of the leftmost
\* match, or NULL. A match is ":root", whitespace, an opening brace, then
\* (lazily) everything up to the first closing brace.
rootMatch(css) ==
    LET ok(p) == /\ startsWithAt(css, ":root", p)
                 /\ charAt(css, runEnd(css, p + 5, SpaceChars)) = "{"
                 /\ indexOf(css, "}", runEnd(css, p + 5, SpaceChars) + 1) # -1
        hits == {p \in 0..Len(css) : ok(p)}
    IN  IF hits = {} THEN NULL
        ELSE LET open == runEnd(css, least(hits) + 5, SpaceChars)
             IN  substring(css, open + 1, indexOf(css, "}", open + 1))

\* The varRegex.exec loop from lastIndex pos: match[1] of every match, in
\* order. A match is "--", a maximal run of word characters and hyphens,
\* whitespace, a colon, whitespace, and at least one character other than
\* a semicolon (the value, up to the next semicolon or the end).
RECURSIVE varMatches(_, _)
varMatches(block, pos) ==
    LET nameEnd(p) == runEnd(block, p + 2, WordChars \cup {"-"})
        colon(p) == runEnd(block, nameEnd(p), SpaceChars)
        hits == {p \in pos..(Len(block) - 1) :
                    /\ startsWithAt(block, "--", p)
                    /\ nameEnd(p) > p + 2
                    /\ charAt(block, colon(p)) = ":"
                    /\ colon(p) + 1 < Len(block)
                    /\ charAt(block, colon(p) + 1) # ";"}
    IN  IF hits = {} THEN <<>>
        ELSE <<substring(block, least(hits) + 2, nameEnd(least(hits)))>>
                 \o varMatches(block, runEndNot(block, colon(least(hits)) + 1, {";"}))

\* [...new Set(rules.token.map(r => r.token))]
tokenCategories(tokenRules) ==
    setOf([i \in 1..Len(tokenRules) |-> tokenRules[i].token])

\* recordToken with the key taken from the hyphen on.
recordTokenKeepHyphen(tokens, categories, varName) ==
    LET hits == {i \in 1..Len(categories) : startsWith(varName, categories[i] \o "-")}
    IN  IF hits = {} THEN tokens
        ELSE LET cat == categories[least(hits)]
                 key == substring(varName, Len(cat), Len(varName))
                 old == IF objHas(tokens, cat) THEN objGet(tokens, cat) ELSE <<>>
             IN  objSet(tokens, cat, objSet(old, key, "var(--" \o varName \o ")"))

\* The body of the while loop of parseTokens for one declared name: the
\* first category (in order) the name starts with, followed by a hyphen.
recordTokenLastMatch(tokens, categories, varName) ==
    LET hits == {i \in 1..Len(categories) : startsWith(varName, categories[i] \o "-")}
    IN  IF hits = {} THEN tokens
        ELSE LET cat == categories[CHOOSE i \in hits : \A j \in hits : j <= i]
                 key == substring(varName, Len(cat) + 1, Len(varName))
                 old == IF objHas(tokens, cat) THEN objGet(tokens, cat) ELSE <<>>
             IN  objSet(tokens, cat, objSet(old, key, "var(--" \o varName \o ")"))

recordToken(tokens, categories, varName) ==
    LET hits == {i \in 1..Len(categories) : startsWith(varName, categories[i] \o "-")}
    IN  IF hits = {} THEN tokens
        ELSE LET cat == categories[least(hits)]
                 key == substring(varName, Len(cat) + 1, Len(varName))
                 old == IF objHas(tokens, cat) THEN objGet(tokens, cat) ELSE <<>>
             IN  objSet(tokens, cat, objSet(old, key, "var(--" \o varName \o ")"))

RECURSIVE recordTokens(_, _, _)
recordTokens(tokens, categories, names) ==
    IF Len(names) = 0 THEN tokens
    ELSE recordTokens(recordToken(tokens, categories, Head(names)),
                      categories, Tail(names))

\* parseTokens(css): this.tokens, starting from the empty object.
parseTokens(tokenRules, css) ==
    IF rootMatch(css) = NULL THEN <<>>
    ELSE recordTokens(<<>>, tokenCategories(tokenRules),
                      varMatches(rootMatch(css), 0))

\* The mediaRegex.exec loop from lastIndex pos: <<match[1], match[2]>> of
\* every match, in order. A match is "@custom-media", whitespace, "--", a
\* maximal run of [a-z0-9-], whitespace, an opening parenthesis, at least
\* one character other than a closing parenthesis, a closing parenthesis.
RECURSIVE mediaMatches(_, _)
mediaMatches(css, pos) ==
    LET dashes(p) == runEnd(css, p + 13, SpaceChars)
        nameEnd(p) == runEnd(css, dashes(p) + 2, LowerChars \cup DigitChars \cup {"-"})
        open(p) == runEnd(css, nameEnd(p), SpaceChars)
        close(p) == runEndNot(css, open(p) + 1, {")"})
        hits == {p \in pos..(Len(css) - 1) :
                    /\ startsWithAt(css, "@custom-media", p)
                    /\ dashes(p) > p + 13
                    /\ startsWithAt(css, "--", dashes(p))
                    /\ nameEnd(p) > dashes(p) + 2
                    /\ open(p) > nameEnd(p)
                    /\ charAt(css, open(p)) = "("
                    /\ close(p) > open(p) + 1
                    /\ close(p) < Len(css)}
    IN  IF hits = {} THEN <<>>
        ELSE <<(<<substring(css, dashes(least(hits)) + 2, nameEnd(least(hits))),
                  substring(css, open(least(hits)) + 1, close(least(hits)))>>)>>
                 \o mediaMatches(css, close(least(hits)) + 1)

\* parseMedia(css): this.rules.variant afterwards. existing is computed once,
\* before the loop; every match whose name is not in it is pushed.
parseMedia(variant, css) ==
    LET existing == {variant[i].name : i \in 1..Len(variant)}
        matches == mediaMatches(css, 0)
        pushed == SelectSeq(matches, LAMBDA m : m[1] \notin existing)
    IN  variant \o [i \in 1..Len(pushed) |->
                      [name |-> pushed[i][1], type |-> "media",
                       condition |-> pushed[i][2]]]

\* opts.extend?.X || []
extendOf(opts, table) ==
    IF "extend" \in DOMAIN opts /\ table \in DOMAIN opts.extend
    THEN opts.extend[table] ELSE <<>>

\* opts.defaultRules?.X !== false
useDef(opts, table) ==
    ~("defaultRules" \in DOMAIN opts
        /\ table \in DOMAIN opts.defaultRules
        /\ opts.defaultRules[table] = FALSE)

\* The rule tables set up by the constructor, before parsing.
setupRulesExtendFirst(opts) ==
    [static |-> extendOf(opts, "staticRules")
                    \o (IF useDef(opts, "staticRules") THEN DEFAULT_STATIC_RULES ELSE <<>>),
     token |-> extendOf(opts, "tokenRules")
                    \o (IF useDef(opts, "tokenRules") THEN DEFAULT_TOKEN_RULES ELSE <<>>),
     variant |-> extendOf(opts, "variantRules")
                    \o (IF useDef(opts, "variantRules") THEN DEFAULT_VARIANT_RULES ELSE <<>>)]

setupRules(opts) ==
    [static |-> (IF useDef(opts, "staticRules") THEN DEFAULT_STATIC_RULES ELSE <<>>)
                    \o extendOf(opts, "staticRules"),
     token |-> (IF useDef(opts, "tokenRules") THEN DEFAULT_TOKEN_RULES ELSE <<>>)
                    \o extendOf(opts, "tokenRules"),
     variant |-> (IF useDef(opts, "variantRules") THEN DEFAULT_VARIANT_RULES ELSE <<>>)
                    \o extendOf(opts, "variantRules")]

\* new UtilityGenerator(opts, css): the generator's fields.
UtilityGenerator(opts, css) ==
    LET rules == setupRules(opts)
    IN  [tokens |-> parseTokens(rules.token, css.tokens),
         rules |-> [rules EXCEPT !.variant = parseMedia(rules.variant, css.media)]]

\* A field that is present and truthy (a non-empty string).
truthy(v, field) == field \in DOMAIN v /\ v[field] # ""

\* variantCss without the branch for ancestor variants.
variantCssNoAncestor(v, cls, css) ==
    LET escaped == v.name \o "\\:" \o cls
    IN  IF v.type = "pseudo"
        THEN "." \o escaped \o ":" \o v.name \o " { " \o css \o " }"
        ELSE IF v.type = "media" /\ truthy(v, "condition")
        THEN "@media (" \o v.condition \o ") { ." \o escaped \o " { " \o css \o " } }"
        ELSE ""

\* The text add builds for class cls under variant v, "" when v is skipped.
variantCss(v, cls, css) ==
    LET escaped == v.name \o "\\:" \o cls
    IN  IF v.type = "pseudo"
        THEN "." \o escaped \o ":" \o v.name \o " { " \o css \o " }"
        ELSE IF v.type = "media" /\ truthy(v, "condition")
        THEN "@media (" \o v.condition \o ") { ." \o escaped \o " { " \o css \o " } }"
        ELSE IF v.type = "ancestor" /\ truthy(v, "selector")
        THEN v.selector \o " ." \o escaped \o " { " \o css \o " }"
        ELSE ""

\* The calls of map.set and raw.push made by the for loop of add: one
\* [key, css] per variant that is not skipped, in order.
addVariants(variants, cls, css) ==
    SelectSeq([i \in 1..Len(variants) |->
                  [key |-> variants[i].name \o ":" \o cls,
                   css |-> variantCss(variants[i], cls, css)]],
              LAMBDA e : e.css # "")

\* add(cls, css): the base entry, then its variant entries.
addVariantsFirst(variants, cls, css) ==
    addVariants(variants, cls, css)
        \o <<[key |-> cls, css |-> "." \o cls \o " { " \o css \o " }"]>>

add(variants, cls, css) ==
    <<[key |-> cls, css |-> "." \o cls \o " { " \o css \o " }"]>>
        \o addVariants(variants, cls, css)

\* this.rules.static.forEach(r => add(r.class, r.css))
addStatic(variants, static) ==
    flat([i \in 1..Len(static) |-> add(variants, static[i].class, static[i].css)])

\* Object.entries(cat).forEach(([k, v]) => add(r.prefix + k, r.css(k, v)))
addEntries(variants, r, entries) ==
    flat([i \in 1..Len(entries) |->
            add(variants, r.prefix \o entries[i][1],
                applyCss(r.css, entries[i][1], entries[i][2]))])

\* this.rules.token.forEach(...): a rule whose category has no token adds
\* nothing.
addTokens(variants, tokens, token) ==
    flat([i \in 1..Len(token) |->
            IF objHas(tokens, token[i].token)
            THEN addEntries(variants, token[i], objGet(tokens, token[i].token))
            ELSE <<>>])

\* The Map after the calls map.set(e.key, e.css) for e in entries, in order:
\* a function from the keys, the last value set for a key being kept.
mapOfFirst(entries) ==
    [k \in {entries[i].key : i \in 1..Len(entries)} |->
        entries[CHOOSE i \in 1..Len(entries) :
                    /\ entries[i].key = k
                    /\ \A j \in 1..(i - 1) : entries[j].key # k].css]

mapOf(entries) ==
    [k \in {entries[i].key : i \in 1..Len(entries)} |->
        entries[CHOOSE i \in 1..Len(entries) :
                    /\ entries[i].key = k
                    /\ \A j \in (i + 1)..Len(entries) : entries[j].key # k].css]

\* UtilityGenerator.build(): [map, raw].
build(self) ==
    LET entries == addStatic(self.rules.variant, self.rules.static)
                     \o addTokens(self.rules.variant, self.tokens, self.rules.token)
    IN  [map |-> mapOf(entries),
         raw |-> [i \in 1..Len(entries) |-> entries[i].css]]

(***************************************************************************)
(* The plugin's Once handler (index.ts 305-538): helpers.                  *)
(***************************************************************************)

PLUGIN_NAME == "postcss-token-utilities"

\* RULES_FILE_NAMES[0], the rules file the model's project may hold.
RULES_FILE_NAME == "token-utilities.rules.ts"

\* process.cwd()
CWD == "/app"

\* path.resolve(cwd, p) and path.join(cwd, p), for a path p without ..
\* segments: an absolute path is kept, a leading ./ is dropped.
resolve(cwd, path) ==
    IF startsWith(path, "/") THEN path
    ELSE IF startsWith(path, "./") THEN cwd \o "/" \o substring(path, 2, Len(path))
    ELSE cwd \o "/" \o path

\* rulesFile?.X || []
rulesOf(loaded, table) ==
    IF table \in DOMAIN loaded THEN loaded[table] ELSE <<>>

\* finalOpts: opts with extend replaced by rules file entries, then inline.
finalOptsOf(opts, loaded) ==
    [x \in DOMAIN opts \cup {"extend"} |->
        IF x = "extend"
        THEN [staticRules |-> rulesOf(loaded, "staticRules") \o extendOf(opts, "staticRules"),
              tokenRules |-> rulesOf(loaded, "tokenRules") \o extendOf(opts, "tokenRules"),
              variantRules |-> rulesOf(loaded, "variantRules") \o extendOf(opts, "variantRules")]
        ELSE opts[x]]

\* JSON.stringify of a string without characters that need escaping.
jsonString(str) == "\"" \o str \o "\""

jsonArray(items) == "[" \o join(items, ",") \o "]"

\* JSON.stringify of a rule: a property holding a function is left out.
jsonStatic(r) ==
    "{\"class\":" \o jsonString(r.class) \o ",\"css\":" \o jsonString(r.css) \o "}"

jsonToken(r) ==
    "{\"token\":" \o jsonString(r.token) \o ",\"prefix\":" \o jsonString(r.prefix) \o "}"

jsonVariant(v) ==
    "{\"name\":" \o jsonString(v.name) \o ",\"type\":" \o jsonString(v.type)
        \o (IF "condition" \in DOMAIN v
            THEN ",\"condition\":" \o jsonString(v.condition) ELSE "")
        \o (IF "selector" \in DOMAIN v
            THEN ",\"selector\":" \o jsonString(v.selector) ELSE "")
        \o "}"

\* JSON.stringify(finalOpts.extend || {})
jsonExtend(extend) ==
    "{\"staticRules\":"
        \o jsonArray([i \in 1..Len(extend.staticRules) |-> jsonStatic(extend.staticRules[i])])
        \o ",\"tokenRules\":"
        \o jsonArray([i \in 1..Len(extend.tokenRules) |-> jsonToken(extend.tokenRules[i])])
        \o ",\"variantRules\":"
        \o jsonArray([i \in 1..Len(extend.variantRules) |-> jsonVariant(extend.variantRules[i])])
        \o "}"

\* JSON.stringify(finalOpts.defaultRules || {}), the flags in the order
\* staticRules, tokenRules, variantRules.
jsonDefaultRules(opts) ==
    LET flags == IF "defaultRules" \in DOMAIN opts THEN opts.defaultRules ELSE <<>>
        names == SelectSeq(<<"staticRules", "tokenRules", "variantRules">>,
                           LAMBDA n : n \in DOMAIN flags)
    IN  "{" \o join([i \in 1..Len(names) |->
                        jsonString(names[i]) \o ":"
                            \o (IF flags[names[i]] THEN "true" ELSE "false")], ",")
            \o "}"

\* createHash("md5").update(data).digest("hex"): the digest is only ever
\* compared for equality and is taken to be collision-free.
md5hex(data) == "md5:" \o data

\* The configHash of a pass.
configHashOf(tokenCss, mediaCss, finalOpts) ==
    md5hex(tokenCss \o mediaCss \o jsonExtend(finalOpts.extend)
              \o jsonDefaultRules(finalOpts))

defaultOutPath == "src/styles/utilities.gen.css"

\* The option value generated: false.
GENERATED_FALSE == [false |-> TRUE]

\* finalOpts.generated is truthy: an object, neither false nor undefined.
generatedOn(opts) == "generated" \in DOMAIN opts /\ opts.generated # GENERATED_FALSE

\* stripCss that drops the first .css of the path, wherever it is.
stripCssAnywhere(path) ==
    LET at == indexOf(path, ".css", 0)
    IN  IF at = -1 THEN path
        ELSE substring(path, 0, at) \o substring(path, at + 4, Len(path))

\* rawOutPath.replace(/\.css$/, "")
stripCss(path) ==
    IF endsWith(path, ".css") THEN substring(path, 0, Len(path) - 4) ELSE path

\* rawOutPath, normalizedOutPath and outPath; NULL when there is none.
outPathOf(cwd, opts) ==
    LET generated == IF "generated" \in DOMAIN opts THEN opts.generated ELSE NONE
        rawOutPath ==
            IF generated # GENERATED_FALSE
            THEN IF "path" \in DOMAIN generated /\ generated.path # ""
                 THEN generated.path ELSE defaultOutPath
            ELSE NULL
        normalizedOutPath ==
            IF rawOutPath # NULL /\ endsWith(rawOutPath, ".gen.css") THEN rawOutPath
            ELSE IF rawOutPath # NULL /\ rawOutPath # ""
                 THEN stripCss(rawOutPath) \o ".gen.css"
                 ELSE NULL
    IN  IF normalizedOutPath # NULL THEN resolve(cwd, normalizedOutPath) ELSE NULL

\* The header of the generated reference file (its first lines).
header ==
    "/* ========================================= */\n"
        \o "/* AUTO-GENERATED FILE                       */\n"

\* fast-glob, for a pattern of the shape dir/**/*.ext: the paths under dir
\* that end in .ext.
globMatch(pattern, path) ==
    LET star == indexOf(pattern, "**/*", 0)
    IN  /\ star # -1
        /\ startsWith(path, substring(pattern, 0, star))
        /\ endsWith(path, substring(pattern, star + 4, Len(pattern)))

\* The ignore list of the glob call: node_modules, .next and **/*.gen.css.
globIgnored(path) ==
    \/ includes(path, "/node_modules/")
    \/ includes(path, "/.next/")
    \/ endsWith(path, ".gen.css")

\* root.walkAtRules("layer", ...): the children of every at-rule layer whose
\* params are exactly utilities-gen are replaced by the parsed injected
\* rules (one node per injected rule text); nothing else changes.
walkAtRulesListing(root, injectLines) ==
    [i \in 1..Len(root) |->
        IF root[i].name = "layer" /\ includes(root[i].params, "utilities-gen")
        THEN [root[i] EXCEPT !.nodes = injectLines]
        ELSE root[i]]

walkAtRules(root, injectLines) ==
    [i \in 1..Len(root) |->
        IF root[i].name = "layer" /\ root[i].params = "utilities-gen"
        THEN [root[i] EXCEPT !.nodes = injectLines]
        ELSE root[i]]

(***************************************************************************)
(* Inputs of the model: the project's files and the plugin's options.      *)
(***************************************************************************)

TOKENS_1 == ":root { --spacing-4: 1rem; }"

\* TOKENS_1 with the value of the token changed.
TOKENS_2 == ":root { --spacing-4: 2rem; }"

MEDIA_1 == "\n@custom-media --md (min-width: 768px);"

\* A token source that also holds the declaration of MEDIA_1.
TOKENS_3 == TOKENS_1 \o MEDIA_1

TokenTexts == {TOKENS_1, TOKENS_2, TOKENS_3}

MediaTexts == {MEDIA_1, ""}

\* The content files of the project, in directory order.
PATHS == <<"src/App.tsx", "src/Nav.tsx">>

CONTENT_1 == "<div className=\"flex p-4\">"

CONTENT_2 == "<a class='md:p-4 nope' href='http://x.io'>"

\* The classes of CONTENT_1 in the other order, after a call of a helper
\* that only a custom matcher finds.
CONTENT_3 == "tw('grid')<div className=\"p-4 flex\">"

Contents == {CONTENT_1, CONTENT_2, CONTENT_3}

\* The rules file of the project, when there is one.
RULES_1 == [staticRules |-> <<[class |-> "nope", css |-> "display: none"]>>]

OPTS_1 ==
    [designTokenSource |-> "src/styles/app.css",
     customMediaSource |-> "src/styles/media.css",
     content |-> <<"src/**/*.tsx">>,
     generated |-> [path |-> "src/styles/utilities.css"]]

\* OPTS_1 without the built-in variants.
OPTS_2 ==
    [designTokenSource |-> "src/styles/app.css",
     customMediaSource |-> "src/styles/media.css",
     content |-> <<"src/**/*.tsx">>,
     generated |-> [path |-> "src/styles/utilities.css"],
     defaultRules |-> [variantRules |-> FALSE]]

\* The reference file switched off, a custom class matcher and an inline
\* static rule.
OPTS_3 ==
    [designTokenSource |-> "src/styles/app.css",
     customMediaSource |-> "src/styles/media.css",
     content |-> <<"src/**/*.tsx">>,
     classMatcher |-> <<"tw">>,
     generated |-> GENERATED_FALSE,
     extend |-> [staticRules |-> <<[class |-> "inline", css |-> "display: inline"]>>]]

\* The options of the plugin instances of the process.
Options == {OPTS_1, OPTS_2, OPTS_3}

\* The stylesheet a pass processes.
DOCUMENT ==
    << [name |-> "layer", params |-> "base, utilities-gen", nodes |-> <<>>],
       [name |-> "layer", params |-> "utilities-gen", nodes |-> <<".stale { }">>],
       [name |-> "media", params |-> "utilities-gen", nodes |-> <<".keep { }">>] >>

\* The build passes that may be in flight together.
Passes == {1, 2}

\* What loadRulesFile may return.
RulesFiles == {RULES_1, NONE}

(***************************************************************************)
(* The generator and the extractor on the inputs above, computed once.     *)
(***************************************************************************)

\* new UtilityGenerator(finalOpts, {tokens, media}).build()
generate(finalOpts, tokenCss, mediaCss) ==
    build(UtilityGenerator(finalOpts, [tokens |-> tokenCss, media |-> mediaCss]))

\* The merged options of the passes.
FinalOptions == {finalOptsOf(o, r) : o \in Options, r \in RulesFiles}

generateTable ==
    [finalOpts \in FinalOptions,
     tokenCss \in TokenTexts \cup {""},
     mediaCss \in MediaTexts \cup {""} |->
        generate(finalOpts, tokenCss, mediaCss)]

generated(finalOpts, tokenCss, mediaCss) ==
    IF /\ finalOpts \in FinalOptions
       /\ tokenCss \in TokenTexts \cup {""}
       /\ mediaCss \in MediaTexts \cup {""}
    THEN generateTable[finalOpts, tokenCss, mediaCss]
    ELSE generate(finalOpts, tokenCss, mediaCss)

\* new ClassExtractor(classMatcher).extract(content)
\* The matcher lists of the passes.
Matchers ==
    {ClassExtractor(IF "classMatcher" \in DOMAIN o THEN o.classMatcher ELSE <<>>) :
        o \in Options}

extractTable ==
    [matchers \in Matchers, content \in Contents |-> extract(matchers, content)]

extracted(matchers, content) ==
    IF matchers \in Matchers /\ content \in Contents
    THEN extractTable[matchers, content]
    ELSE extract(matchers, content)

\* Bounds of the model.
MaxMtime == 2

MaxEdits == 1

MaxPasses == 2

(***************************************************************************)
(* State.                                                                  *)
(***************************************************************************)

VARIABLES
    tokenFile,      \* the text of the design token source, NULL when unreadable
    mediaFile,      \* the text of the custom media source, NULL when missing
    rulesFile,      \* the default export of the rules file, NONE when missing
    contentFiles,   \* path -> [content, mtime], NONE when the file is missing
    generatedFiles, \* path -> text of the generated reference files written
    universeCache,  \* let universeCache: [configHash, cssMap, rawCss] or NONE
    fileScanCache,  \* const fileScanCache: path -> [mtime, classes]
    pc,             \* pass -> where its Once handler stands
    pass,           \* pass -> the local variables of its Once handler
    universeSource, \* history: the inputs universeCache was generated from
    lastSource,     \* history: the inputs of the latest pass to compute a hash
    edits,          \* the number of changes made to the project's files
    started,        \* the number of passes started
    gen,            \* the inputs of a generator run on its own
    universe,       \* the result of that run, NONE before it
    rerun,          \* the result of a second run on the same inputs
    call,           \* a function of the program called on its own: name and arguments
    ret             \* what that call returned, NONE before it returns

vars ==
    <<tokenFile, mediaFile, rulesFile, contentFiles, generatedFiles,
      universeCache, fileScanCache, pc, pass, universeSource, lastSource,
      edits, started, gen, universe, rerun, call, ret>>

fsVars == <<tokenFile, mediaFile, rulesFile, contentFiles>>

genVars == <<gen, universe, rerun>>

unitVars == <<call, ret>>

\* The local variables of a pass that has not started.
NoPass ==
    [opts |-> NONE, root |-> <<>>, rulesFile |-> NONE, finalOpts |-> NONE,
     tokenCss |-> "", mediaCss |-> "", configHash |-> NULL, rebuilt |-> FALSE,
     matchers |-> <<>>, files |-> <<>>, usedClasses |-> <<>>,
     injectLines |-> <<>>, messages |-> <<>>, filesRead |-> {},
     queried |-> NULL, wrote |-> FALSE, rules |-> NONE]

\* The reference file an earlier run of the build has left on disk.
PreviousReference ==
    outPathOf(CWD, OPTS_1) :>
        (header \o join(generated(finalOptsOf(OPTS_1, NONE), TOKENS_3, "").raw, "\n"))

Init ==
    /\ tokenFile = TOKENS_3
    /\ mediaFile \in {"", NULL}
    /\ rulesFile = NONE
    /\ contentFiles = [f \in Range(PATHS) |->
                          IF f = PATHS[1] THEN [content |-> CONTENT_1, mtime |-> 1]
                          ELSE NONE]
    /\ generatedFiles \in {<<>>, PreviousReference}
    /\ universeCache = NONE
    /\ fileScanCache = <<>>
    /\ pc = [p \in Passes |-> "idle"]
    /\ pass = [p \in Passes |-> NoPass]
    /\ universeSource = NONE
    /\ lastSource = NONE
    /\ edits = 0
    /\ started = 0
    /\ gen = NONE
    /\ universe = NONE
    /\ rerun = NONE
    /\ call = NONE
    /\ ret = NONE

(***************************************************************************)
(* The project's files change under the build.                             *)
(***************************************************************************)

WriteTokenFile(text) ==
    /\ edits < MaxEdits
    /\ text # tokenFile
    /\ tokenFile' = text
    /\ edits' = edits + 1
    /\ UNCHANGED <<mediaFile, rulesFile, contentFiles, generatedFiles,
                   universeCache, fileScanCache, pc, pass, universeSource,
                   lastSource, started, genVars, unitVars>>

WriteMediaFile(text) ==
    /\ edits < MaxEdits
    /\ text # mediaFile
    /\ mediaFile' = text
    /\ edits' = edits + 1
    /\ UNCHANGED <<tokenFile, rulesFile, contentFiles, generatedFiles,
                   universeCache, fileScanCache, pc, pass, universeSource,
                   lastSource, started, genVars, unitVars>>

WriteRulesFile(rules) ==
    /\ edits < MaxEdits
    /\ rules # rulesFile
    /\ rulesFile' = rules
    /\ edits' = edits + 1
    /\ UNCHANGED <<tokenFile, mediaFile, contentFiles, generatedFiles,
                   universeCache, fileScanCache, pc, pass, universeSource,
                   lastSource, started, genVars, unitVars>>

\* A declaration at the end of the token source is moved to the start of
\* the media source, both files being saved together.
MoveDeclaration(decl) ==
    /\ edits < MaxEdits
    /\ tokenFile # NULL /\ mediaFile # NULL
    /\ endsWith(tokenFile, decl)
    /\ tokenFile' = substring(tokenFile, 0, Len(tokenFile) - Len(decl))
    /\ mediaFile' = decl \o mediaFile
    /\ edits' = edits + 1
    /\ UNCHANGED <<rulesFile, contentFiles, generatedFiles,
                   universeCache, fileScanCache, pc, pass, universeSource,
                   lastSource, started, genVars, unitVars>>

\* A content file is written (or created); its modification time is any
\* time of the clock, the one it had included.
WriteContentFile(f, content, mtime) ==
    /\ edits < MaxEdits
    /\ contentFiles[f] # [content |-> content, mtime |-> mtime]
    /\ contentFiles' = [contentFiles EXCEPT ![f] = [content |-> content, mtime |-> mtime]]
    /\ edits' = edits + 1
    /\ UNCHANGED <<tokenFile, mediaFile, rulesFile, generatedFiles,
                   universeCache, fileScanCache, pc, pass, universeSource,
                   lastSource, started, genVars, unitVars>>

DeleteContentFile(f) ==
    /\ edits < MaxEdits
    /\ contentFiles[f] # NONE
    /\ contentFiles' = [contentFiles EXCEPT ![f] = NONE]
    /\ edits' = edits + 1
    /\ UNCHANGED <<tokenFile, mediaFile, rulesFile, generatedFiles,
                   universeCache, fileScanCache, pc, pass, universeSource,
                   lastSource, started, genVars, unitVars>>

(***************************************************************************)
(* A build pass: the Once handler, one action per stretch of code between  *)
(* two awaits. Passes of the same process share the two caches.            *)
(***************************************************************************)

\* A plugin instance is invoked on a stylesheet: Once runs up to the await
\* of loadRulesFile, which imports the rules file when there is one.
Start(p, opts) ==
    /\ pc[p] \in {"idle", "returned", "done", "failed"}
    /\ started < MaxPasses
    /\ started' = started + 1
    /\ pass' = [pass EXCEPT ![p] =
                   [NoPass EXCEPT !.opts = opts, !.root = DOCUMENT,
                                  !.rulesFile = rulesFile]]
    /\ pc' = [pc EXCEPT ![p] = "loading"]
    /\ UNCHANGED <<fsVars, generatedFiles, universeCache, fileScanCache,
                   universeSource, lastSource, edits, genVars, unitVars>>

\* The generated reference file after the write of lines 430-478.
\* The text of the file at a path, empty when there is none.
existingAt(files, outPath) == IF outPath \in DOMAIN files THEN files[outPath] ELSE ""

writesReferenceAlways(files, finalOpts, rawCss) ==
    generatedOn(finalOpts) /\ outPathOf(CWD, finalOpts) # NULL

\* Whether fs.writeFileSync is called for the reference file.
writesReference(files, finalOpts, rawCss) ==
    /\ generatedOn(finalOpts)
    /\ outPathOf(CWD, finalOpts) # NULL
    /\ existingAt(files, outPathOf(CWD, finalOpts)) # header \o rawCss

writeGenerated(files, finalOpts, rawCss) ==
    LET outPath == outPathOf(CWD, finalOpts)
        contentToWrite == header \o rawCss
    IN  IF writesReference(files, finalOpts, rawCss)
        THEN (outPath :> contentToWrite) @@ files
        ELSE files

\* isStale that takes every cached universe as stale.
isStaleAlways(cache, configHash) == TRUE

\* universeCache?.configHash !== configHash
isStale(cache, configHash) == cache = NONE \/ cache.configHash # configHash

\* The inputs a pass computes its hash from.
sourceOf(tokenCss, mediaCss, finalOpts, configHash) ==
    [tokenCss |-> tokenCss, mediaCss |-> mediaCss, extend |-> finalOpts.extend,
     defaultRules |-> IF "defaultRules" \in DOMAIN finalOpts
                      THEN finalOpts.defaultRules ELSE <<>>,
     configHash |-> configHash]

\* From the rules file being loaded to the await of glob: the options are
\* merged, the sources read, the hash computed and, when it differs from the
\* cached one, the universe generated, published and written to disk.
Configure(p) ==
    /\ pc[p] = "loading"
    /\ LET l == pass[p]
           finalOpts == finalOptsOf(l.opts, l.rulesFile)
           rulesDep == IF rulesFile # NONE
                       THEN <<resolve(CWD, RULES_FILE_NAME)>> ELSE <<>>
           invalid == finalOpts.designTokenSource = "" \/ Len(finalOpts.content) = 0
           tokenPath == resolve(CWD, finalOpts.designTokenSource)
           mediaPath == IF "customMediaSource" \in DOMAIN finalOpts
                           /\ finalOpts.customMediaSource # ""
                        THEN resolve(CWD, finalOpts.customMediaSource) ELSE NULL
           \* the try block: the read of the token source throws when it fails
           tokenRead == tokenFile # NULL
           mediaRead == tokenRead /\ mediaPath # NULL /\ mediaFile # NULL
           tokenCss == IF tokenRead THEN tokenFile ELSE ""
           mediaCss == IF mediaRead THEN mediaFile ELSE ""
           sourceDeps == (IF tokenRead THEN <<tokenPath>> ELSE <<>>)
                             \o (IF mediaRead THEN <<mediaPath>> ELSE <<>>)
           configHash == configHashOf(tokenCss, mediaCss, finalOpts)
           stale == isStale(universeCache, configHash)
           built == generated(finalOpts, tokenCss, mediaCss)
           rawCss == join(built.raw, "\n")
       IN  IF invalid
           THEN /\ pass' = [pass EXCEPT ![p] =
                               [l EXCEPT !.finalOpts = finalOpts,
                                         !.messages = rulesDep]]
                /\ pc' = [pc EXCEPT ![p] = "returned"]
                /\ UNCHANGED <<universeCache, universeSource, lastSource,
                               generatedFiles>>
           ELSE /\ lastSource' = sourceOf(tokenCss, mediaCss, finalOpts, configHash)
                /\ pass' = [pass EXCEPT ![p] =
                               [l EXCEPT !.finalOpts = finalOpts,
                                         !.messages = rulesDep \o sourceDeps,
                                         !.tokenCss = tokenCss,
                                         !.mediaCss = mediaCss,
                                         !.configHash = configHash,
                                         !.rebuilt = stale,
                                         !.rules = IF stale THEN setupRules(finalOpts)
                                                   ELSE NONE,
                                         !.wrote = stale /\ writesReference(
                                                       generatedFiles, finalOpts, rawCss),
                                         !.matchers =
                                             ClassExtractor(
                                                 IF "classMatcher" \in DOMAIN finalOpts
                                                 THEN finalOpts.classMatcher ELSE <<>>)]]
                /\ pc' = [pc EXCEPT ![p] = "globbing"]
                /\ IF stale
                   THEN /\ universeCache' = [configHash |-> configHash,
                                             cssMap |-> built.map,
                                             rawCss |-> rawCss]
                        /\ universeSource' =
                               sourceOf(tokenCss, mediaCss, finalOpts, configHash)
                        /\ generatedFiles' = writeGenerated(generatedFiles, finalOpts, rawCss)
                   ELSE UNCHANGED <<universeCache, universeSource, generatedFiles>>
    /\ UNCHANGED <<fsVars, fileScanCache, edits, started, genVars, unitVars>>

\* The glob of the content patterns resolves with the files that exist.
Glob(p) ==
    /\ pc[p] = "globbing"
    /\ pass' = [pass EXCEPT ![p].files =
                   SelectSeq(PATHS, LAMBDA f :
                       /\ contentFiles[f] # NONE
                       /\ \E i \in 1..Len(pass[p].finalOpts.content) :
                              globMatch(pass[p].finalOpts.content[i], f)
                       /\ ~globIgnored(resolve(CWD, f)))]
    /\ pc' = [pc EXCEPT ![p] = "scanning"]
    /\ UNCHANGED <<fsVars, generatedFiles, universeCache, fileScanCache,
                   universeSource, lastSource, edits, started, genVars, unitVars>>

\* cacheHit that never hits.
cacheHitNever(cache, f, mtimeMs) == FALSE

\* cacheHit that hits on every file with a record, whatever its time.
cacheHitAnyTime(cache, f, mtimeMs) == f \in DOMAIN cache

\* cached && cached.mtime === stats.mtimeMs
cacheHit(cache, f, mtimeMs) == f \in DOMAIN cache /\ cache[f].mtime = mtimeMs

\* injectLinesOf that pushes a line for every used class, found or not.
injectLinesUnfiltered(cache, usedClasses) ==
    [i \in 1..Len(usedClasses) |->
        IF cache # NONE /\ usedClasses[i] \in DOMAIN cache.cssMap
        THEN cache.cssMap[usedClasses[i]] ELSE ""]

\* injectLines in the order in which the universe was generated.
injectLinesGenerationOrder(cache, usedClasses) ==
    LET texts == IF cache = NONE THEN {}
                 ELSE {cache.cssMap[c] : c \in Range(usedClasses) \cap DOMAIN cache.cssMap}
        at(t) == indexOf(cache.rawCss, t, 0)
    IN  [i \in 1..Cardinality(texts) |->
            CHOOSE t \in texts : Cardinality({u \in texts : at(u) < at(t)}) = i - 1]

\* injectLines: for every used class, in order, the text the universe's
\* lookup map has for it, when it has one.
injectLinesOf(cache, usedClasses) ==
    LET found(c) == /\ cache # NONE
                    /\ c \in DOMAIN cache.cssMap
                    /\ cache.cssMap[c] # ""
        used == SelectSeq(usedClasses, found)
    IN  [i \in 1..Len(used) |-> cache.cssMap[used[i]]]

setAllOnly(cache, records) == records

\* fileScanCache.set for each of the records: Map.set adds or overwrites.
setAll(cache, records) ==
    [f \in DOMAIN cache \cup DOMAIN records |->
        IF f \in DOMAIN records THEN records[f] ELSE cache[f]]

\* The used classes gathered from the files of the pass and then from
\* every record that the cache holds.
usedClassesOfAll(cache, records, files) ==
    LET classesAt(f) == IF f \in DOMAIN records THEN records[f].classes
                        ELSE IF f \in DOMAIN cache THEN cache[f].classes
                        ELSE <<>>
    IN  setOf(flat([i \in 1..Len(files) |-> classesAt(files[i])])
                \o flat([i \in 1..Len(PATHS) |-> classesAt(PATHS[i])]))

\* usedClasses after the loop: for every file of the pass, in order, the
\* classes of the record just made for it, or of the cached record it hit.
usedClassesOf(cache, records, files) ==
    setOf(flat([i \in 1..Len(files) |->
                   IF files[i] \in DOMAIN records THEN records[files[i]].classes
                   ELSE cache[files[i]].classes]))

\* After the glob: the scan loop over the files, the lookup of the used
\* classes in the universe and the replacement of the insertion point.
\* fs.statSync throws on a file that is gone, which rejects the handler.
Scan(p) ==
    /\ pc[p] = "scanning"
    /\ LET l == pass[p]
           gone == {i \in 1..Len(l.files) : contentFiles[l.files[i]] = NONE}
           \* the files the loop gets through
           n == IF gone = {} THEN Len(l.files) ELSE least(gone) - 1
           visited == SubSeq(l.files, 1, IF gone = {} THEN n ELSE n + 1)
           hit(f) == cacheHit(fileScanCache, f, contentFiles[f].mtime)
           scanned(f) == [mtime |-> contentFiles[f].mtime,
                          classes |-> extracted(l.matchers, contentFiles[f].content)]
           read == {l.files[i] : i \in {j \in 1..n : ~hit(l.files[j])}}
           usedClasses == usedClassesOf(fileScanCache, [f \in read |-> scanned(f)],
                                        SubSeq(l.files, 1, n))
           injectLines == injectLinesOf(universeCache, usedClasses)
           messages == l.messages
                           \o [i \in 1..Len(visited) |-> resolve(CWD, visited[i])]
       IN  /\ fileScanCache' = setAll(fileScanCache, [f \in read |-> scanned(f)])
           /\ IF gone # {}
              THEN /\ pass' = [pass EXCEPT ![p] =
                                  [l EXCEPT !.messages = messages,
                                            !.filesRead = read,
                                            !.usedClasses = usedClasses]]
                   /\ pc' = [pc EXCEPT ![p] = "failed"]
              ELSE /\ pass' = [pass EXCEPT ![p] =
                                  [l EXCEPT !.messages = messages,
                                            !.filesRead = read,
                                            !.usedClasses = usedClasses,
                                            !.injectLines = injectLines,
                                            !.queried =
                                                IF universeCache # NONE
                                                THEN universeCache.configHash
                                                ELSE NULL,
                                            !.root = walkAtRules(l.root, injectLines)]]
                   /\ pc' = [pc EXCEPT ![p] = "done"]
    /\ UNCHANGED <<fsVars, generatedFiles, universeCache, universeSource,
                   lastSource, edits, started, genVars, unitVars>>

PassStep(p) ==
    \/ \E opts \in Options : Start(p, opts)
    \/ Configure(p)
    \/ Glob(p)
    \/ Scan(p)

FileStep ==
    \/ \E text \in TokenTexts \cup {NULL} : WriteTokenFile(text)
    \/ \E text \in MediaTexts \cup {NULL} : WriteMediaFile(text)
    \/ MoveDeclaration(MEDIA_1)
    \/ \E rules \in RulesFiles : WriteRulesFile(rules)
    \/ \E f \in Range(PATHS), content \in Contents, mtime \in 1..MaxMtime :
           WriteContentFile(f, content, mtime)
    \/ \E f \in Range(PATHS) : DeleteContentFile(f)

Next ==
    \/ \E p \in Passes : PassStep(p)
    \/ FileStep

Spec == Init /\ [][Next]_vars

\* The process starts in a project with an empty media source and no
\* reference file.
InitProject == Init /\ mediaFile = "" /\ generatedFiles = <<>>

(***************************************************************************)
(* The generator on its own: one run of new UtilityGenerator(opts, css)    *)
(* and build() per input, the inputs being drawn from the sets below.      *)
(* A source text is written from its list of declarations, so that what a  *)
(* text declares is known apart from the parsers.                          *)
(***************************************************************************)

\* A token source: a root block with one custom property per declaration
\* <<name, value>>; without the root selector when root is FALSE.
tokenSource(decls, root) ==
    (IF root THEN ":root {\n" ELSE "body {\n")
        \o join([i \in 1..Len(decls) |->
                    "  --" \o decls[i][1] \o ": " \o decls[i][2] \o ";"], "\n")
        \o "\n}\n"

\* A media source: one @custom-media line per declaration <<name, condition>>.
mediaSource(decls) ==
    join([i \in 1..Len(decls) |->
             "@custom-media --" \o decls[i][1] \o " (" \o decls[i][2] \o ");"], "\n")

GenTokenDecls ==
    { << <<"spacing-4", "1rem">>, <<"unknown-x", "0">> >>,
      << <<"font-size-lg", "2rem">>, <<"spacing-4", "4">>, <<"spacing-2", "8px">> >>,
      << <<"color-gradient-a", "red">>, <<"radius-full", "1px">>,
         <<"border-2", "2px">>, <<"color-2", "blue">> >> }

GenMediaDecls ==
    { <<>>,
      << <<"md", "min-width: 768px">>, <<"md", "min-width: 800px">> >>,
      << <<"hover", "hover: hover">>, <<"dark", "prefers-color-scheme: dark">> >> }

\* Extensions: variants without their required field, next to a complete one.
EXTEND_VARIANTS ==
    [variantRules |->
        << [name |-> "print", type |-> "media"],
           [name |-> "peer", type |-> "ancestor"],
           [name |-> "dark", type |-> "media", condition |-> "prefers-color-scheme: dark"],
           [name |-> "empty", type |-> "media", condition |-> ""] >>]

\* Extensions: two token categories, one a prefix of the other.
EXTEND_TOKENS ==
    [tokenRules |->
        << [token |-> "font", prefix |-> "font-", css |-> [fn |-> "decl", prop |-> "font-family"]],
           [token |-> "font-size", prefix |-> "text-", css |-> [fn |-> "decl", prop |-> "font-size"]] >>]

\* The same two categories, the longer one registered first.
EXTEND_TOKENS_REVERSED ==
    [tokenRules |->
        << [token |-> "font-size", prefix |-> "text-", css |-> [fn |-> "decl", prop |-> "font-size"]],
           [token |-> "font", prefix |-> "font-", css |-> [fn |-> "decl", prop |-> "font-family"]] >>]

\* Extensions: static rules whose class names are taken, one by a built-in
\* static rule and one by a token rule applied to a token.
EXTEND_STATICS ==
    [staticRules |->
        << [class |-> "flex", css |-> "display: inline-flex"],
           [class |-> "p-4", css |-> "padding: 0"] >>]

GenExtends == {EXTEND_VARIANTS, EXTEND_TOKENS, EXTEND_TOKENS_REVERSED, EXTEND_STATICS}

GenFlags ==
    { <<>>,
      [variantRules |-> FALSE],
      [staticRules |-> FALSE, tokenRules |-> TRUE],
      [staticRules |-> FALSE, tokenRules |-> FALSE, variantRules |-> FALSE] }

\* The options of a run: extensions or none, default-rule flags or none.
GenOptions ==
    {[designTokenSource |-> "src/styles/app.css", content |-> <<"src/**/*.tsx">>]}
      \cup {[designTokenSource |-> "src/styles/app.css", content |-> <<"src/**/*.tsx">>,
             extend |-> e] : e \in GenExtends}
      \cup {[designTokenSource |-> "src/styles/app.css", content |-> <<"src/**/*.tsx">>,
             defaultRules |-> d] : d \in GenFlags \ {<<>>}}
      \cup {[designTokenSource |-> "src/styles/app.css", content |-> <<"src/**/*.tsx">>,
             extend |-> e, defaultRules |-> d] : e \in GenExtends, d \in GenFlags \ {<<>>}}

\* The inputs of the runs.
GenInputs ==
    [opts : GenOptions, tokenDecls : GenTokenDecls, root : BOOLEAN,
     mediaDecls : GenMediaDecls]

\* An input is chosen.
Configured(input) ==
    /\ gen = NONE
    /\ gen' = input
    /\ UNCHANGED <<fsVars, generatedFiles, universeCache, fileScanCache, pc,
                   pass, universeSource, lastSource, edits, started, universe,
                   rerun, unitVars>>

\* The generator is constructed on the input and build() is called.
Generate ==
    /\ gen # NONE
    /\ universe = NONE
    /\ LET g == UtilityGenerator(gen.opts,
                    [tokens |-> tokenSource(gen.tokenDecls, gen.root),
                     media |-> mediaSource(gen.mediaDecls)])
           b == build(g)
       IN  universe' = [tokens |-> g.tokens, rules |-> g.rules,
                        map |-> b.map, raw |-> b.raw]
    /\ UNCHANGED <<fsVars, generatedFiles, universeCache, fileScanCache, pc,
                   pass, universeSource, lastSource, edits, started, gen,
                   rerun, unitVars>>

\* A second generator is constructed on the same input and built.
Regenerate ==
    /\ universe # NONE
    /\ rerun = NONE
    /\ LET g == UtilityGenerator(gen.opts,
                    [tokens |-> tokenSource(gen.tokenDecls, gen.root),
                     media |-> mediaSource(gen.mediaDecls)])
           b == build(g)
       IN  rerun' = [tokens |-> g.tokens, rules |-> g.rules,
                     map |-> b.map, raw |-> b.raw]
    /\ UNCHANGED <<fsVars, generatedFiles, universeCache, fileScanCache, pc,
                   pass, universeSource, lastSource, edits, started, gen,
                   universe, unitVars>>

NextGen ==
    \/ \E input \in GenInputs : Configured(input)
    \/ Generate
    \/ Regenerate

SpecGen == InitProject /\ [][NextGen]_vars

(***************************************************************************)
(* Functions of the program called on their own, on inputs drawn from the  *)
(* sets below: a call is made, then it returns.                            *)
(***************************************************************************)

\* n copies of str.
RECURSIVE repeat(_, _)
repeat(str, n) ==
    IF n = 0 THEN ""
    ELSE LET half == repeat(str, n \div 2)
         IN  half \o half \o (IF n % 2 = 1 THEN str ELSE "")

\* Candidates handed to isValidClassName.
Candidates ==
    {"", "flex", "hover:flex", "p-4", "w_1.5", "Az09", "-", ".", ":",
     "http://example.com", "a://b", "a\\b", "/path", "a/b", "f(x)", "a{b",
     "a[b", "a]b", "a)b", "a}b", "a b", "a!b", "a\nb", "@md", "#id", "50%",
     repeat("a", MaxClassLen - 1), repeat("a", MaxClassLen),
     repeat("a", MaxClassLen + 1), repeat("ab:", MaxClassLen)}

\* Source texts handed to extract: the matchers with literals of each quote
\* kind, several occurrences, no occurrence, and a literal that starts
\* beyond the text extract looks at after an occurrence.
SourceTexts ==
    {"className=\"hover:flex  p-4\"",
     "class='flex p-4'",
     "cn(" \o BACKTICK \o "md:p-4 flex" \o BACKTICK \o ")",
     "<a class=\"flex\" href=\"http://example.com\">",
     "<p title=\"flex\">",
     "tw('m-1')",
     "clsx('a', ok && 'b c') + clsx(\"d\")",
     "className=" \o repeat(" ", ChunkLen - 17) \o "\"flex\"",
     "className=" \o repeat(" ", ChunkLen) \o "\"flex\""}

\* Values of the option generated.path.
GeneratedPaths ==
    {"src/styles/utilities.gen.css", "./src/styles/utilities.gen.css",
     "src/styles/utilities.css", "src/styles/utilities", "utilities",
     "a.scss", "a.gen", "a.gencss", ".css", ".gen.css", "a.css.css",
     "a.gen.css.css", "a.css.map", "a.CSS", "a.gen.css.map", "out/",
     "/abs/u.css", "/abs/u.gen.css", "css", "a.css.gen.css"}

\* The classMatcher option of the extractor.
ClassMatchers == {<<>>, <<"tw">>}

\* The calls that may be made.
Calls ==
    {[fn |-> "isValidClassName", str |-> c] : c \in Candidates}
      \cup {[fn |-> "extract", classMatcher |-> m, content |-> t] :
                m \in ClassMatchers, t \in SourceTexts}
      \cup {[fn |-> "outPath", path |-> path] : path \in GeneratedPaths}

\* A call is made.
Call(c) ==
    /\ call = NONE
    /\ call' = c
    /\ UNCHANGED <<fsVars, generatedFiles, universeCache, fileScanCache, pc,
                   pass, universeSource, lastSource, edits, started, genVars, ret>>

\* isValidClassName(str) returns.
ReturnIsValidClassName ==
    /\ call # NONE /\ call.fn = "isValidClassName"
    /\ ret = NONE
    /\ ret' = [value |-> isValidClassName(call.str)]
    /\ UNCHANGED <<fsVars, generatedFiles, universeCache, fileScanCache, pc,
                   pass, universeSource, lastSource, edits, started, genVars, call>>

\* new ClassExtractor(classMatcher).extract(content) returns.
ReturnExtract ==
    /\ call # NONE /\ call.fn = "extract"
    /\ ret = NONE
    /\ ret' = [value |-> extract(ClassExtractor(call.classMatcher), call.content)]
    /\ UNCHANGED <<fsVars, generatedFiles, universeCache, fileScanCache, pc,
                   pass, universeSource, lastSource, edits, started, genVars, call>>

\* The path of the reference file is computed for the option
\* generated.path, and again for the path that came out.
ReturnOutPath ==
    /\ call # NONE /\ call.fn = "outPath"
    /\ ret = NONE
    /\ LET outPath == outPathOf(CWD, [generated |-> [path |-> call.path]])
       IN  ret' = [value |-> outPath,
                   again |-> outPathOf(CWD, [generated |-> [path |-> outPath]])]
    /\ UNCHANGED <<fsVars, generatedFiles, universeCache, fileScanCache, pc,
                   pass, universeSource, lastSource, edits, started, genVars, call>>

NextUnit ==
    \/ \E c \in Calls : Call(c)
    \/ ReturnIsValidClassName
    \/ ReturnExtract
    \/ ReturnOutPath

SpecUnit == InitProject /\ [][NextUnit]_vars

(***************************************************************************)
(* The search loop of extract, one iteration at a time (index.ts 99-117).  *)
(* The locals of the running call are kept in call: the position of the    *)
(* matcher of the for loop, index, the Set classes, and the number of      *)
(* iterations of the while loop made so far.                               *)
(***************************************************************************)

\* How many iterations of the while loop a call is followed for.
MaxIterations == 6

\* Texts with complete, unterminated and mismatched literals.
LoopTexts ==
    {"",
     "<div className=\"flex p-4\">",
     "class=\"flex",
     "class='flex\" cn('p-4",
     "cn(\"a\", 'b') cn(",
     "tw('grid') class=" \o BACKTICK \o "p-4"}

\* The classMatcher options of the calls.
LoopMatchers == {<<>>, <<"tw">>, <<"">>}

\* The chunks the iterations look at.
LoopChunks ==
    {substring(content, at, at + ChunkLen) :
        <<content, at>> \in {<<c, i>> \in LoopTexts \X (0..MaxClassLen) : i <= Len(c)}}

\* extractQuotedStrings on the chunks, computed once.
quotedTable == [chunk \in LoopChunks |-> extractQuotedStrings(chunk)]

quoted(chunk) ==
    IF chunk \in LoopChunks THEN quotedTable[chunk] ELSE extractQuotedStrings(chunk)

\* extract(content) is entered: classes is empty, the for loop is at its
\* first matcher with index 0.
EnterExtract(classMatcher, content) ==
    /\ call = NONE
    /\ call' = [fn |-> "extract.loop", matchers |-> ClassExtractor(classMatcher),
                content |-> content, matcher |-> 1, index |-> 0,
                classes |-> <<>>, iterations |-> 0]
    /\ UNCHANGED <<fsVars, generatedFiles, universeCache, fileScanCache, pc,
                   pass, universeSource, lastSource, edits, started, genVars, ret>>

\* The loop is running at some matcher.
InLoop ==
    /\ call # NONE /\ call.fn = "extract.loop"
    /\ ret = NONE
    /\ call.matcher <= Len(call.matchers)

\* One iteration of the while loop: the matcher is found at or after index,
\* the literals of the chunk are added, index moves past the occurrence.
Iterate ==
    /\ InLoop
    /\ call.iterations < MaxIterations
    /\ \E at \in {indexOf(call.content, call.matchers[call.matcher], call.index)} :
          /\ at # -1
          /\ call' = [call EXCEPT
                           !.classes = setOf(call.classes \o quoted(
                                           substring(call.content, at, at + ChunkLen))),
                           !.index = at + Len(call.matchers[call.matcher]),
                           !.iterations = call.iterations + 1]
    /\ UNCHANGED <<fsVars, generatedFiles, universeCache, fileScanCache, pc,
                   pass, universeSource, lastSource, edits, started, genVars, ret>>

\* The matcher is not found from index on: the while loop ends and the for
\* loop goes to the next matcher.
NextMatcher ==
    /\ InLoop
    /\ indexOf(call.content, call.matchers[call.matcher], call.index) = -1
    /\ call' = [call EXCEPT !.matcher = call.matcher + 1, !.index = 0]
    /\ UNCHANGED <<fsVars, generatedFiles, universeCache, fileScanCache, pc,
                   pass, universeSource, lastSource, edits, started, genVars, ret>>

\* The for loop is over: extract returns classes.
ReturnClasses ==
    /\ call # NONE /\ call.fn = "extract.loop"
    /\ ret = NONE
    /\ call.matcher > Len(call.matchers)
    /\ ret' = [value |-> call.classes]
    /\ UNCHANGED <<fsVars, generatedFiles, universeCache, fileScanCache, pc,
                   pass, universeSource, lastSource, edits, started, genVars, call>>

NextLoop ==
    \/ \E classMatcher \in LoopMatchers, content \in LoopTexts :
           EnterExtract(classMatcher, content)
    \/ Iterate
    \/ NextMatcher
    \/ ReturnClasses

\* A running call goes on running.
SpecLoop == InitProject /\ [][NextLoop]_vars /\ WF_vars(NextLoop)

(***************************************************************************)
(* Properties of the generator, checked under SpecGen.                     *)
(***************************************************************************)

\* The variant has what its type requires: nothing for pseudo, a non-empty
\* condition for media, a non-empty selector for ancestor.
HasRequiredField(v) ==
    \/ v.type = "pseudo"
    \/ v.type = "media" /\ "condition" \in DOMAIN v /\ v.condition # ""
    \/ v.type = "ancestor" /\ "selector" \in DOMAIN v /\ v.selector # ""

\* The base classes of the generated universe: the classes of the static
\* rules and prefix + key for every token rule and key of its category.
BaseClasses ==
    {universe.rules.static[i].class : i \in 1..Len(universe.rules.static)}
      \cup UNION {{universe.rules.token[i].prefix \o universe.tokens[c][2][k][1] :
                      k \in 1..Len(universe.tokens[c][2])} :
                  <<i, c>> \in {<<j, d>> \in (1..Len(universe.rules.token))
                                               \X (1..Len(universe.tokens)) :
                                  universe.tokens[d][1] = universe.rules.token[j].token}}

\* The number of calls of add made by build.
AddCalls ==
    LET perRule == [i \in 1..Len(universe.rules.token) |->
                       LET cs == {c \in 1..Len(universe.tokens) :
                                     universe.tokens[c][1] = universe.rules.token[i].token}
                       IN  IF cs = {} THEN 0
                           ELSE Len(universe.tokens[CHOOSE c \in cs : TRUE][2])]
        sum[n \in 0..Len(perRule)] == IF n = 0 THEN 0 ELSE sum[n - 1] + perRule[n]
    IN  Len(universe.rules.static) + sum[Len(perRule)]

ValidVariants ==
    {i \in 1..Len(universe.rules.variant) : HasRequiredField(universe.rules.variant[i])}

\* C7: in every generated universe, every base class C and every variant V
\* that has its required field have an entry at key V:C; a variant without
\* its required field contributes no entry, and every other rule and
\* variant is still generated (each call of add pushes the base text and one
\* text per complete variant, and every key is a base class or V:C for a
\* complete variant V).
C7_VariantCompleteness ==
    universe # NONE =>
        /\ \A c \in BaseClasses :
              /\ c \in DOMAIN universe.map
              /\ \A i \in ValidVariants :
                    (universe.rules.variant[i].name \o ":" \o c) \in DOMAIN universe.map
        /\ Len(universe.raw) = AddCalls * (1 + Cardinality(ValidVariants))
        /\ \A key \in DOMAIN universe.map :
              \/ key \in BaseClasses
              \/ \E c \in BaseClasses, i \in ValidVariants :
                     key = universe.rules.variant[i].name \o ":" \o c

\* C7 witness: a universe generated from token rules with tokens, with a
\* media and an ancestor variant lacking their field next to complete ones.
C7_Witness ==
    /\ universe # NONE
    /\ \E i \in 1..Len(universe.rules.variant) :
          /\ universe.rules.variant[i].type = "media"
          /\ ~HasRequiredField(universe.rules.variant[i])
    /\ \E i \in 1..Len(universe.rules.variant) :
          /\ universe.rules.variant[i].type = "ancestor"
          /\ ~HasRequiredField(universe.rules.variant[i])
    /\ \E i \in ValidVariants : universe.rules.variant[i].type = "media"
    /\ \E i \in ValidVariants : universe.rules.variant[i].type = "ancestor"
    /\ universe.tokens # <<>>
    /\ universe.rules.static # <<>>

\* The registered token rules whose category, followed by a hyphen, starts
\* the declared name.
RegisteredFor(name) ==
    {j \in 1..Len(universe.rules.token) :
        startsWith(name, universe.rules.token[j].token \o "-")}

\* The <<category, key>> pairs of the parsed tokens that hold the reference
\* to the custom property name.
RecordedAt(name) ==
    {<<universe.tokens[c][1], universe.tokens[c][2][k][1]>> :
        <<c, k>> \in {<<d, l>> \in (1..Len(universe.tokens)) \X (1..MaxClassLen) :
                         /\ l <= Len(universe.tokens[d][2])
                         /\ universe.tokens[d][2][l][2] = "var(--" \o name \o ")"}}

\* The rest of the declared name after the category and its hyphen.
KeyIn(name, category) == substring(name, Len(category) + 1, Len(name))

\* C8 as stated: every declared custom property is recorded under every
\* registered category it is named by, tokens[category][key] being the
\* reference var(--category-key); names of no registered category are
\* ignored.
C8_EveryNamedCategory ==
    (universe # NONE /\ gen.root) =>
        \A i \in 1..Len(gen.tokenDecls) :
            LET name == gen.tokenDecls[i][1]
            IN  /\ \A j \in RegisteredFor(name) :
                      <<universe.rules.token[j].token,
                        KeyIn(name, universe.rules.token[j].token)>> \in RecordedAt(name)
                /\ RegisteredFor(name) = {} => RecordedAt(name) = {}

\* C8: every custom property declared in the root block is recorded once,
\* under the first registered category (in registration order) that,
\* followed by a hyphen, starts its name; the recorded value is the
\* reference var(--name), never the declared value; a name of no registered
\* category is ignored. With the prefix p- registered for spacing, the
\* declaration --spacing-4 yields class p-4 with body
\* padding: var(--spacing-4);
C8_TokenParsing ==
    (universe # NONE /\ gen.root) =>
        /\ \A i \in 1..Len(gen.tokenDecls) :
              LET name == gen.tokenDecls[i][1]
                  hits == RegisteredFor(name)
              IN  IF hits = {} THEN RecordedAt(name) = {}
                  ELSE LET cat == universe.rules.token[least(hits)].token
                       IN  /\ RecordedAt(name) = {<<cat, KeyIn(name, cat)>>}
                           /\ objGet(objGet(universe.tokens, cat), KeyIn(name, cat))
                                 = "var(--" \o name \o ")"
                           /\ objGet(objGet(universe.tokens, cat), KeyIn(name, cat))
                                 # gen.tokenDecls[i][2]
        /\ \A c \in 1..Len(universe.tokens) : \A k \in 1..Len(universe.tokens[c][2]) :
              \E i \in 1..Len(gen.tokenDecls) :
                  universe.tokens[c][2][k][2] = "var(--" \o gen.tokenDecls[i][1] \o ")"
        /\ ((\E i \in 1..Len(gen.tokenDecls) : gen.tokenDecls[i][1] = "spacing-4")
              /\ (\E j \in 1..Len(universe.rules.token) :
                     /\ universe.rules.token[j].token = "spacing"
                     /\ universe.rules.token[j].prefix = "p-"))
             => /\ "p-4" \in DOMAIN universe.map
                /\ universe.map["p-4"] = ".p-4 { padding: var(--spacing-4); }"

\* C8 witness: a root block declaring spacing-4 with value 4, a name of
\* two registered categories and p- registered; the universe is generated.
C8_Witness ==
    /\ universe # NONE
    /\ gen.root
    /\ \E i \in 1..Len(gen.tokenDecls) :
          /\ Cardinality(RegisteredFor(gen.tokenDecls[i][1])) > 1
          /\ RecordedAt(gen.tokenDecls[i][1]) # {}
    /\ \E i \in 1..Len(gen.tokenDecls) :
          /\ gen.tokenDecls[i] = <<"spacing-4", "4">>
          /\ RecordedAt("spacing-4") = {<<"spacing", "4">>}
    /\ "p-4" \in DOMAIN universe.map

\* The variants registered before parsing, and those parsing appended.
RegisteredVariants == setupRules(gen.opts).variant

AddedVariants ==
    SubSeq(universe.rules.variant, Len(RegisteredVariants) + 1,
           Len(universe.rules.variant))

\* C9 as stated: after parsing, the registered variants are unchanged, a
\* media variant is appended for a declared name only if no registered
\* variant has that name, and no name is appended more than once.
C9_NoDuplicateAdded ==
    universe # NONE =>
        /\ SubSeq(universe.rules.variant, 1, Len(RegisteredVariants)) = RegisteredVariants
        /\ \A i \in 1..Len(AddedVariants) :
              /\ AddedVariants[i].type = "media"
              /\ \E d \in 1..Len(gen.mediaDecls) :
                    /\ gen.mediaDecls[d][1] = AddedVariants[i].name
                    /\ gen.mediaDecls[d][2] = AddedVariants[i].condition
              /\ \A r \in 1..Len(RegisteredVariants) :
                    RegisteredVariants[r].name # AddedVariants[i].name
        /\ \A i, j \in 1..Len(AddedVariants) :
              AddedVariants[i].name = AddedVariants[j].name => i = j

\* C10 as stated: no two variant rules of the effective rule set used for
\* generation have the same name.
C10_UniqueVariantNames ==
    universe # NONE =>
        \A i, j \in 1..Len(universe.rules.variant) :
            universe.rules.variant[i].name = universe.rules.variant[j].name => i = j

(***************************************************************************)
(* Properties of the build passes, checked under Spec.                     *)
(***************************************************************************)

\* Pass p takes its step from the rules file to the glob, past validation.
ConfigureStep(p) == pc[p] = "loading" /\ pc'[p] = "globbing"

\* Pass p runs its scan loop and reaches injection.
InjectStep(p) == pc[p] = "scanning" /\ pc'[p] = "done"

\* Pass p runs its scan loop, to the end or to a file that is gone.
ScanStep(p) == pc[p] = "scanning" /\ pc'[p] \in {"done", "failed"}

\* The files the scan loop of pass p gets to stat: those before the first
\* one that is gone.
ReachedFiles(p) ==
    {pass[p].files[i] :
        i \in {j \in 1..Len(pass[p].files) :
                  \A k \in 1..j : contentFiles[pass[p].files[k]] # NONE}}

\* The record of file f holds its current modification time.
Fresh(f) ==
    f \in DOMAIN fileScanCache /\ fileScanCache[f].mtime = contentFiles[f].mtime

\* C1: when a pass reaches injection, the used-class set is the union of
\* the class sets of the files of the pass, the children of the layer
\* utilities-gen are the injected rules, and the rule text of key X of the
\* universe lookup map is injected if and only if X is a used class;
\* nothing that is not a text of the lookup map is injected.
C1_InjectionMinimality ==
    [][\A p \in Passes :
          InjectStep(p) =>
              LET used == UNION {Range(fileScanCache'[f].classes) :
                                    f \in Range(pass[p].files)}
                  injected == Range(pass'[p].injectLines)
              IN  /\ Range(pass'[p].usedClasses) = used
                  /\ \A X \in DOMAIN universeCache.cssMap :
                        universeCache.cssMap[X] \in injected <=> X \in used
                  /\ injected \subseteq
                        {universeCache.cssMap[X] : X \in DOMAIN universeCache.cssMap}
                  /\ \A i \in 1..Len(pass'[p].root) :
                        (pass'[p].root[i].name = "layer"
                           /\ pass'[p].root[i].params = "utilities-gen")
                          => pass'[p].root[i].nodes = pass'[p].injectLines]_vars

\* C1 witness: a pass over two files has injected rules; one of its used
\* classes is no key of the universe and one key of the universe is unused.
C1_Witness ==
    \E p \in Passes :
        /\ pc[p] = "done"
        /\ Len(pass[p].files) = 2
        /\ pass[p].injectLines # <<>>
        /\ pass[p].root[2].nodes = pass[p].injectLines
        /\ universeCache.configHash = pass[p].queried
        /\ \E c \in Range(pass[p].usedClasses) : c \notin DOMAIN universeCache.cssMap
        /\ \E X \in DOMAIN universeCache.cssMap : X \notin Range(pass[p].usedClasses)

\* The inputs of the pass are those the cached universe was generated
\* from: token text, media text and rule extensions.
SameTextsAndExtensions(p) ==
    /\ universeSource # NONE
    /\ pass'[p].tokenCss = universeSource.tokenCss
    /\ pass'[p].mediaCss = universeSource.mediaCss
    /\ pass'[p].finalOpts.extend = universeSource.extend

\* The default-rule flags of the pass are those of the cached universe.
SameDefaultRules(p) ==
    (IF "defaultRules" \in DOMAIN pass'[p].finalOpts
     THEN pass'[p].finalOpts.defaultRules ELSE <<>>) = universeSource.defaultRules

\* The pass computes the cached hash, does not run the generator and
\* leaves the cached universe and the generated reference file as they are.
FastPath(p) ==
    /\ pass'[p].configHash = universeCache.configHash
    /\ ~pass'[p].rebuilt
    /\ universeCache' = universeCache
    /\ generatedFiles' = generatedFiles

\* C2 as stated: a pass whose token text, media text and rule extensions
\* are those of the pass that populated the universe cache computes the
\* same hash, does not regenerate and leaves the cache and the generated
\* reference file unchanged.
C2_FastPathAsStated ==
    [][\A p \in Passes :
          (ConfigureStep(p) /\ SameTextsAndExtensions(p)) => FastPath(p)]_vars

\* C2: a pass whose token text, media text, rule extensions and
\* default-rule flags are those of the pass that populated the universe
\* cache computes the same hash, does not regenerate and leaves the cache
\* and the generated reference file unchanged.
C2_FastPath ==
    [][\A p \in Passes :
          (ConfigureStep(p) /\ SameTextsAndExtensions(p) /\ SameDefaultRules(p))
              => FastPath(p)]_vars

\* C2 witness: a pass past its hash computation found the universe cached
\* for its own inputs and did not regenerate.
C2_Witness ==
    \E p \in Passes :
        /\ pc[p] \in {"globbing", "scanning", "done"}
        /\ ~pass[p].rebuilt
        /\ universeSource # NONE
        /\ pass[p].tokenCss = universeSource.tokenCss
        /\ pass[p].mediaCss = universeSource.mediaCss
        /\ pass[p].configHash = universeCache.configHash

\* C3 as stated: a pass whose token text differs from that of the pass
\* before it computes a different hash, regenerates the universe from its
\* inputs and replaces the whole cache entry.
C3_InvalidationOnTokenChange ==
    [][\A p \in Passes :
          (ConfigureStep(p) /\ lastSource # NONE
             /\ pass'[p].tokenCss # lastSource.tokenCss)
              => /\ pass'[p].configHash # lastSource.configHash
                 /\ pass'[p].rebuilt
                 /\ universeCache' =
                       [configHash |-> pass'[p].configHash,
                        cssMap |-> generated(pass'[p].finalOpts, pass'[p].tokenCss,
                                             pass'[p].mediaCss).map,
                        rawCss |-> join(generated(pass'[p].finalOpts, pass'[p].tokenCss,
                                                  pass'[p].mediaCss).raw, "\n")]]_vars

\* C4: in the scan loop, a file whose record holds its current
\* modification time is not read, its record is left as it is and the
\* classes of the record are in the used-class set.
C4_ScanCacheReuse ==
    [][\A p \in Passes :
          ScanStep(p) =>
              \A f \in ReachedFiles(p) :
                  Fresh(f) =>
                      /\ f \notin pass'[p].filesRead
                      /\ fileScanCache'[f] = fileScanCache[f]
                      /\ Range(fileScanCache[f].classes)
                            \subseteq Range(pass'[p].usedClasses)]_vars

\* C4 witness: a pass has finished over files all of which had a record
\* with the current modification time, one of them written since with
\* other content; its used classes are those of the records.
C4_Witness ==
    \E p \in Passes :
        /\ pc[p] = "done"
        /\ pass[p].files # <<>>
        /\ pass[p].filesRead = {}
        /\ pass[p].usedClasses # <<>>
        /\ \E f \in Range(pass[p].files) :
              /\ contentFiles[f] # NONE
              /\ fileScanCache[f].mtime = contentFiles[f].mtime
              /\ fileScanCache[f].classes
                    # extracted(pass[p].matchers, contentFiles[f].content)

\* C5: in the scan loop, a file without a record, or whose record holds
\* another modification time, is read and its record becomes the current
\* modification time with the classes extracted from the current content;
\* the used-class set of the pass is the union of the classes of the
\* records as they are after the loop.
C5_ScanCacheRefresh ==
    [][\A p \in Passes :
          ScanStep(p) =>
              /\ \A f \in ReachedFiles(p) :
                    ~Fresh(f) =>
                        /\ f \in pass'[p].filesRead
                        /\ fileScanCache'[f] =
                              [mtime |-> contentFiles[f].mtime,
                               classes |-> extracted(pass[p].matchers,
                                                     contentFiles[f].content)]
              /\ Range(pass'[p].usedClasses) =
                    UNION {Range(fileScanCache'[f].classes) : f \in ReachedFiles(p)}]_vars

\* C5 witness: two passes have finished and both read the same file, the
\* later one over the record of the earlier one; a class of the content
\* first in the file is not among the used classes of one of them.
C5_Witness ==
    \E p, q \in Passes :
        /\ p # q
        /\ pc[p] = "done" /\ pc[q] = "done"
        /\ \E f \in pass[p].filesRead \cap pass[q].filesRead :
              /\ contentFiles[f] # NONE
              /\ fileScanCache[f].mtime = contentFiles[f].mtime
              /\ fileScanCache[f].classes = pass[q].usedClasses
              /\ "flex" \in Range(pass[p].usedClasses)
              /\ "flex" \notin Range(pass[q].usedClasses)

\* C6 as stated: the universe a pass queries when matching its used
\* classes has the content hash that same pass computed.
C6_QueriedOwnUniverse ==
    \A p \in Passes : pc[p] = "done" => pass[p].queried = pass[p].configHash

(***************************************************************************)
(* Properties of the functions called on their own, checked under          *)
(* SpecUnit.                                                               *)
(***************************************************************************)

\* isValidClassName has returned for the candidate of the call.
Validated == call # NONE /\ call.fn = "isValidClassName" /\ ret # NONE

\* The characters of a class name: letters, digits, hyphen, underscore,
\* colon and dot.
NameChars ==
    LowerChars \cup UpperChars \cup DigitChars \cup {"-", "_", ":", "."}

\* C11: a candidate is accepted if and only if it is non-empty, has at
\* most 100 characters, contains no ://, no backslash, does not start with
\* a slash, contains no opening parenthesis, brace or bracket, and consists
\* only of letters, digits, hyphen, underscore, colon and dot; the call
\* returns for every candidate.
C11_ValidityFilter ==
    Validated =>
        (ret.value <=>
            /\ Len(call.str) > 0
            /\ Len(call.str) <= 100
            /\ ~\E i \in 1..(Len(call.str) - 2) : SubSeq(call.str, i, i + 2) = "://"
            /\ ~\E i \in 1..Len(call.str) : SubSeq(call.str, i, i) \in {"\\", "(", "{", "["}
            /\ SubSeq(call.str, 1, 1) # "/"
            /\ \A i \in 1..Len(call.str) : SubSeq(call.str, i, i) \in NameChars)

\* C11 witness: the candidate http://example.com has been rejected.
C11_Witness ==
    /\ Validated
    /\ call.str = "http://example.com"
    /\ ret.value = FALSE

\* extract has returned for the text of the call.
Extracted == call # NONE /\ call.fn = "extract" /\ ret # NONE

\* The positions of the text at which the matcher occurs.
OccurrencesOf(matcher, text) ==
    {at \in 0..(Len(text) - Len(matcher)) : startsWithAt(text, matcher, at)}

\* The valid whitespace-separated tokens of the quoted literals of a text.
TokensOfLiterals(text) ==
    UNION {{t \in Range(splitWhitespace(lit, 0)) : isValidClassName(t)} :
              lit \in Range(quotedStrings(text, 0))}

\* C12 as stated: for every configured matcher and every occurrence of it
\* in the text, every valid token of every quoted literal of the text
\* following the occurrence is in the returned set; the text
\* className="hover:flex  p-4" returns exactly hover:flex and p-4.
C12_ExtractionCoverage ==
    Extracted =>
        /\ \A m \in Range(DEFAULT_CLASS_MATCHER) \cup Range(call.classMatcher) :
              \A at \in OccurrencesOf(m, call.content) :
                  TokensOfLiterals(substring(call.content, at, Len(call.content)))
                      \subseteq Range(ret.value)
        /\ call.content = "className=\"hover:flex  p-4\""
              => Range(ret.value) = {"hover:flex", "p-4"}

\* The path of the reference file has been computed for the call.
Normalized == call # NONE /\ call.fn = "outPath" /\ ret # NONE

\* The string ends with the suffix.
HasSuffix(str, suffix) ==
    /\ Len(str) >= Len(suffix)
    /\ SubSeq(str, Len(str) - Len(suffix) + 1, Len(str)) = suffix

\* The string without its last n characters.
DropLast(str, n) == SubSeq(str, 1, Len(str) - n)

\* C18: for every configured generated.path the path written to ends in
\* .gen.css; a path ending in .gen.css is used unchanged, a path ending in
\* .css has that suffix replaced by .gen.css, any other path has .gen.css
\* appended (the result being resolved against the working directory), and
\* normalizing the result again gives the same path.
C18_PathNormalization ==
    Normalized =>
        /\ HasSuffix(ret.value, ".gen.css")
        /\ HasSuffix(call.path, ".gen.css")
              => ret.value = resolve(CWD, call.path)
        /\ (HasSuffix(call.path, ".css") /\ ~HasSuffix(call.path, ".gen.css"))
              => ret.value = resolve(CWD, DropLast(call.path, 4) \o ".gen.css")
        /\ ~HasSuffix(call.path, ".css")
              => ret.value = resolve(CWD, call.path \o ".gen.css")
        /\ ret.again = ret.value

\* C18 witness: a path ending in .css and containing another .css has
\* been normalized.
C18_Witness ==
    /\ Normalized
    /\ call.path = "a.css.css"
    /\ ret.value = "/app/a.css.gen.css"
    /\ ret.again = ret.value

(***************************************************************************)
(* Further properties of the build passes, checked under Spec.             *)
(***************************************************************************)

\* Pass p leaves its scan loop, one way or the other.
LeavesScan(p) == pc[p] = "scanning" /\ pc'[p] # "scanning"

\* The children of the insertion point of pass p are its injected rules.
Injected(p) ==
    \A i \in 1..Len(pass'[p].root) :
        (pass'[p].root[i].name = "layer" /\ pass'[p].root[i].params = "utilities-gen")
            => pass'[p].root[i].nodes = pass'[p].injectLines

\* C13 as stated: when a content file returned by the glob cannot be
\* stat-ed or read, the pass does not abort; the file contributes nothing,
\* the other files are scanned and injection happens for their classes.
C13_UnreadableFileIsLocal ==
    [][\A p \in Passes :
          LeavesScan(p) =>
              LET present == {f \in Range(pass[p].files) : contentFiles[f] # NONE}
              IN  /\ pc'[p] = "done"
                  /\ Range(pass'[p].usedClasses) =
                        UNION {Range(extracted(pass[p].matchers, contentFiles[f].content))
                                  : f \in {g \in present : ~Fresh(g)}}
                          \cup UNION {Range(fileScanCache[f].classes)
                                         : f \in {g \in present : Fresh(g)}}
                  /\ Injected(p)]_vars

\* The paths of the sources of pass p, as Once resolves them.
TokenPath(p) == resolve(CWD, pass'[p].finalOpts.designTokenSource)

MediaPath(p) == resolve(CWD, pass'[p].finalOpts.customMediaSource)

\* Pass p went on without having read one of its sources.
SourceUnread(p) ==
    \/ resolve(CWD, pass[p].finalOpts.designTokenSource) \notin Range(pass[p].messages)
    \/ resolve(CWD, pass[p].finalOpts.customMediaSource) \notin Range(pass[p].messages)

\* C14 as stated: when the token source or the media source cannot be
\* read, the pass takes that source as empty text, does not fail, publishes
\* a universe for its hash that has the static rules at least, and performs
\* injection.
C14_UnreadableSourceRecovered ==
    [][\A p \in Passes :
          /\ (pc[p] = "loading" /\ pc'[p] # "loading"
                /\ (tokenFile = NULL \/ mediaFile = NULL))
               => /\ pc'[p] = "globbing"
                  /\ tokenFile = NULL => pass'[p].tokenCss = ""
                  /\ mediaFile = NULL => pass'[p].mediaCss = ""
                  /\ universeCache' # NONE
                  /\ universeCache'.configHash = pass'[p].configHash
                  /\ \A i \in 1..Len(setupRules(pass'[p].finalOpts).static) :
                        setupRules(pass'[p].finalOpts).static[i].class
                            \in DOMAIN universeCache'.cssMap
          /\ (LeavesScan(p) /\ SourceUnread(p))
               => (pc'[p] = "done" /\ Injected(p))]_vars

\* C15 as stated: a pass with valid configuration registers the token
\* source path, the media source path when one is configured, and every
\* content file it scans as dependencies, whether or not the source could
\* be read.
C15_DependenciesRegistered ==
    [][\A p \in Passes :
          /\ ConfigureStep(p) =>
                /\ TokenPath(p) \in Range(pass'[p].messages)
                /\ "customMediaSource" \in DOMAIN pass'[p].finalOpts
                      => MediaPath(p) \in Range(pass'[p].messages)
          /\ LeavesScan(p) =>
                \A f \in ReachedFiles(p) : resolve(CWD, f) \in Range(pass'[p].messages)]_vars

\* C16: the injection of a pass replaces the children of every layer
\* at-rule whose parameters are exactly utilities-gen by the injected rules
\* of the pass, leaving it without children when nothing is injected, and
\* changes no other node of the document, a layer statement that only
\* lists utilities-gen among other layers included.
C16_InsertionPointReplaced ==
    [][\A p \in Passes :
          InjectStep(p) =>
              /\ Len(pass'[p].root) = Len(pass[p].root)
              /\ \A i \in 1..Len(pass[p].root) :
                    IF pass[p].root[i].name = "layer"
                          /\ pass[p].root[i].params = "utilities-gen"
                    THEN /\ pass'[p].root[i].nodes = pass'[p].injectLines
                         /\ pass'[p].root[i].name = "layer"
                         /\ pass'[p].root[i].params = "utilities-gen"
                    ELSE pass'[p].root[i] = pass[p].root[i]]_vars

\* One pass has replaced the former child by its rules, another has left
\* the insertion point empty, and both kept the other nodes.
C16_Witness ==
    \E p, q \in Passes :
        /\ pc[p] = "done" /\ pc[q] = "done"
        /\ pass[p].injectLines # <<>>
        /\ pass[p].root[2].nodes = pass[p].injectLines
        /\ pass[q].injectLines = <<>>
        /\ pass[q].root[2].nodes = <<>>
        /\ pass[p].root[1] = DOCUMENT[1] /\ pass[q].root[1] = DOCUMENT[1]
        /\ pass[p].root[3] = DOCUMENT[3] /\ pass[q].root[3] = DOCUMENT[3]

\* Pass p calls fs.writeFileSync for its reference file in this step.
Writes(p) == pass'[p].wrote /\ ~pass[p].wrote

\* The content pass p would write: the header and the raw text of the
\* universe it works with.
ContentToWrite(p) == header \o universeCache'.rawCss

\* C17: the reference file is written only by a pass with the reference
\* file switched on whose content to write differs from what the file
\* holds, and then holds that content; a pass whose content equals the
\* file, and a pass with generated: false, write nothing, and no other
\* step touches the files.
C17_RewrittenOnlyOnChange ==
    [][/\ \A p \in Passes :
            /\ Writes(p) =>
                  /\ ConfigureStep(p)
                  /\ generatedOn(pass'[p].finalOpts)
                  /\ existingAt(generatedFiles, outPathOf(CWD, pass'[p].finalOpts))
                        # ContentToWrite(p)
                  /\ generatedFiles'[outPathOf(CWD, pass'[p].finalOpts)]
                        = ContentToWrite(p)
            /\ (ConfigureStep(p)
                  /\ (\/ ~generatedOn(pass'[p].finalOpts)
                      \/ existingAt(generatedFiles, outPathOf(CWD, pass'[p].finalOpts))
                            = ContentToWrite(p)))
                  => (~Writes(p) /\ generatedFiles' = generatedFiles)
       /\ generatedFiles' # generatedFiles => \E p \in Passes : Writes(p)]_vars

\* A pass that regenerated found the file equal to its content and did
\* not write, and a pass with generated: false regenerated without
\* writing, the file on disk being out of date by then.
C17_Witness ==
    \E p, q \in Passes :
        /\ pc[p] = "done" /\ pc[q] = "done"
        /\ pass[p].rebuilt /\ generatedOn(pass[p].finalOpts) /\ ~pass[p].wrote
        /\ pass[q].rebuilt /\ ~generatedOn(pass[q].finalOpts) /\ ~pass[q].wrote
        /\ existingAt(generatedFiles, outPathOf(CWD, pass[p].finalOpts))
              # header \o universeCache.rawCss

(***************************************************************************)
(* Further properties of the generator, checked under SpecGen.             *)
(***************************************************************************)

\* The entries of the category token rule i names, in iteration order.
CategoryOf(i) ==
    LET cs == {c \in 1..Len(universe.tokens) :
                  universe.tokens[c][1] = universe.rules.token[i].token}
    IN  IF cs = {} THEN <<>> ELSE universe.tokens[CHOOSE c \in cs : TRUE][2]

\* The number of add calls made before the first one of token rule i.
CallsBefore(i) ==
    LET sum[n \in 0..(i - 1)] ==
            IF n = 0 THEN Len(universe.rules.static)
            ELSE sum[n - 1] + Len(CategoryOf(n))
    IN  sum[i - 1]

\* The raw texts of the k-th add call are the base text of cls and css,
\* followed by the texts of the valid variants in registration order.
BlockAt(k, cls, css) ==
    LET n == 1 + Cardinality(ValidVariants)
        first == (k - 1) * n + 1
    IN  /\ first + n - 1 <= Len(universe.raw)
        /\ universe.raw[first] = "." \o cls \o " { " \o css \o " }"
        /\ \A v \in ValidVariants :
              universe.raw[first + Cardinality({w \in ValidVariants : w <= v})]
                  = variantCss(universe.rules.variant[v], cls, css)

\* C19: a second run of the generator on the same rules and sources
\* yields the same lookup map and the same raw texts in the same order,
\* and that order is: static rules in registration order, then token rules
\* in registration order with their tokens in iteration order, each base
\* text immediately followed by its variant texts in registration order.
C19_GenerationDeterminism ==
    /\ rerun # NONE =>
          /\ DOMAIN rerun.map = DOMAIN universe.map
          /\ \A k \in DOMAIN universe.map : rerun.map[k] = universe.map[k]
          /\ rerun.raw = universe.raw
    /\ universe # NONE =>
          /\ \A i \in 1..Len(universe.rules.static) :
                BlockAt(i, universe.rules.static[i].class, universe.rules.static[i].css)
          /\ \A i \in 1..Len(universe.rules.token) :
                \A e \in 1..Len(CategoryOf(i)) :
                    BlockAt(CallsBefore(i) + e,
                            universe.rules.token[i].prefix \o CategoryOf(i)[e][1],
                            applyCss(universe.rules.token[i].css,
                                     CategoryOf(i)[e][1], CategoryOf(i)[e][2]))

\* Both runs are done on an input with several static rules, a token rule
\* with several tokens after another token rule that has some, and
\* several variants.
C19_Witness ==
    /\ rerun # NONE
    /\ Len(universe.rules.static) >= 2
    /\ Cardinality(ValidVariants) >= 2
    /\ \E i, j \in 1..Len(universe.rules.token) :
          i < j /\ Len(CategoryOf(i)) >= 1 /\ Len(CategoryOf(j)) >= 2

\* C20 as stated: in a generated universe the lookup map holds, for every
\* static rule, the rule text built from its own body at its class name,
\* and for every token rule and every entry of its category the rule text
\* built from the builder of that rule at prefix + key.
C20_EveryRuleOwnEntry ==
    universe # NONE =>
        /\ \A i \in 1..Len(universe.rules.static) :
              LET r == universe.rules.static[i]
              IN  /\ r.class \in DOMAIN universe.map
                  /\ universe.map[r.class] = "." \o r.class \o " { " \o r.css \o " }"
        /\ \A i \in 1..Len(universe.rules.token) :
              \A e \in 1..Len(CategoryOf(i)) :
                  LET r == universe.rules.token[i]
                      cls == r.prefix \o CategoryOf(i)[e][1]
                  IN  /\ cls \in DOMAIN universe.map
                      /\ universe.map[cls] =
                            "." \o cls \o " { "
                                \o applyCss(r.css, CategoryOf(i)[e][1], CategoryOf(i)[e][2])
                                \o " }"

\* The categories registered by some token rule that a name starts with.
MatchingCategories(name) ==
    {universe.rules.token[j].token : j \in RegisteredFor(name)}

\* The position of the first token rule that names a category.
FirstRuleOf(category) ==
    least({j \in 1..Len(universe.rules.token) :
              universe.rules.token[j].token = category})

\* The categories under which some key holds the reference to a name.
RecordedUnder(name) ==
    {universe.tokens[c][1] :
        c \in {d \in 1..Len(universe.tokens) :
                  \E k \in 1..Len(universe.tokens[d][2]) :
                      universe.tokens[d][2][k][2] = "var(--" \o name \o ")"}}

\* C21: a declared name that starts with category- for several registered
\* categories is recorded under exactly one of them, the one whose first
\* token rule comes first in registration order, at the key that is the
\* rest of the name after that category and its hyphen, and under no
\* later or longer category.
C21_CategoryTieBreak ==
    (universe # NONE /\ gen.root) =>
        \A i \in 1..Len(gen.tokenDecls) :
            LET name == gen.tokenDecls[i][1]
                cats == MatchingCategories(name)
            IN  Cardinality(cats) > 1 =>
                    \E first \in cats :
                        /\ \A c \in cats : FirstRuleOf(first) <= FirstRuleOf(c)
                        /\ RecordedUnder(name) = {first}
                        /\ objHas(objGet(universe.tokens, first),
                                  substring(name, Len(first) + 1, Len(name)))
                        /\ objGet(objGet(universe.tokens, first),
                                  substring(name, Len(first) + 1, Len(name)))
                              = "var(--" \o name \o ")"
                        /\ \A c \in cats \ {first} :
                              objHas(universe.tokens, c) =>
                                 ~objHas(objGet(universe.tokens, c),
                                         substring(name, Len(c) + 1, Len(name)))

\* font-size-lg is declared where font is registered before font-size: it
\* is recorded under font at size-lg, not under the longer font-size.
C21_Witness ==
    /\ universe # NONE
    /\ gen.root
    /\ \E i \in 1..Len(gen.tokenDecls) : gen.tokenDecls[i][1] = "font-size-lg"
    /\ MatchingCategories("font-size-lg") = {"font", "font-size"}
    /\ FirstRuleOf("font") < FirstRuleOf("font-size")
    /\ RecordedUnder("font-size-lg") = {"font"}
    /\ objGet(objGet(universe.tokens, "font"), "size-lg") = "var(--font-size-lg)"

\* The text the lookup map is to hold at V:C for variant v, class cls and
\* body css, by the type of v.
Wrapped(v, cls, css) ==
    IF v.type = "pseudo"
    THEN "." \o v.name \o "\\:" \o cls \o ":" \o v.name \o " { " \o css \o " }"
    ELSE IF v.type = "media"
    THEN "@media (" \o v.condition \o ") { ." \o v.name \o "\\:" \o cls
             \o " { " \o css \o " } }"
    ELSE v.selector \o " ." \o v.name \o "\\:" \o cls \o " { " \o css \o " }"

\* The add calls of the run whose base text is the one the map holds.
BaseEntries ==
    {<<universe.rules.static[i].class, universe.rules.static[i].css>> :
        i \in 1..Len(universe.rules.static)}
      \cup UNION {{<<universe.rules.token[i].prefix \o CategoryOf(i)[e][1],
                     applyCss(universe.rules.token[i].css,
                              CategoryOf(i)[e][1], CategoryOf(i)[e][2])>> :
                      e \in 1..Len(CategoryOf(i))} :
                  i \in 1..Len(universe.rules.token)}

\* C22 as stated: for every base class C whose entry has body B and every
\* variant V that has its required field, the entry at V:C wraps B in the
\* shape of the type of V: the pseudo selector, the conditional block with
\* the condition of V, or the selector of V in front.
C22_VariantWrapping ==
    universe # NONE =>
        \A b \in BaseEntries :
            universe.map[b[1]] = "." \o b[1] \o " { " \o b[2] \o " }" =>
                \A v \in ValidVariants :
                    LET V == universe.rules.variant[v]
                    IN  /\ (V.name \o ":" \o b[1]) \in DOMAIN universe.map
                        /\ universe.map[V.name \o ":" \o b[1]] = Wrapped(V, b[1], b[2])

\* C23: the set of paths that have a record in the file scan cache only
\* grows, whatever happens to the files; a record is created or changed
\* only by the scan loop of a pass that reaches the file and finds no
\* record with the modification time of the file, and is then the whole
\* record of that scan.
C23_ScanCacheNeverEvicts ==
    [][/\ DOMAIN fileScanCache \subseteq DOMAIN fileScanCache'
       /\ \A f \in DOMAIN fileScanCache' :
             (f \notin DOMAIN fileScanCache \/ fileScanCache'[f] # fileScanCache[f]) =>
                 \E p \in Passes :
                     /\ ScanStep(p)
                     /\ f \in ReachedFiles(p)
                     /\ ~Fresh(f)
                     /\ fileScanCache'[f] =
                           [mtime |-> contentFiles[f].mtime,
                            classes |-> extracted(pass[p].matchers,
                                                  contentFiles[f].content)]]_vars

\* A pass has completed after the file of a record was deleted, and the
\* record is still there.
C23_Witness ==
    \E p \in Passes, f \in DOMAIN fileScanCache :
        /\ contentFiles[f] = NONE
        /\ pc[p] = "done"
        /\ f \notin Range(pass[p].files)
        /\ fileScanCache[f].classes # <<>>

\* The entries of a rule table in a rules file or in the extend option.
EntriesIn(source, table) == IF table \in DOMAIN source THEN source[table] ELSE <<>>

\* The defaultRules option as given, empty when absent.
FlagsOf(opts) == IF "defaultRules" \in DOMAIN opts THEN opts.defaultRules ELSE <<>>

\* The effective table of pass p is the built-in table unless its flag is
\* exactly false, then the entries of the rules file, then the inline ones.
MergedAs(p, effective, builtin, table) ==
    LET off == table \in DOMAIN FlagsOf(pass[p].opts)
                  /\ FlagsOf(pass[p].opts)[table] = FALSE
    IN  /\ effective =
              (IF off THEN <<>> ELSE builtin)
                  \o EntriesIn(pass[p].rulesFile, table)
                  \o EntriesIn(EntriesIn(pass[p].opts, "extend"), table)
        /\ off => \A i \in 1..Len(effective) : effective[i] \notin Range(builtin)

\* C24: the generator of a pass works on rule tables that are the built-in
\* defaults (left out when the defaultRules flag is exactly false), the
\* rules-file entries and the inline extend entries, in that order; and a
\* pass whose defaultRules flags differ from those of the pass before it
\* computes another hash and regenerates.
C24_RuleRegistryMerge ==
    [][\A p \in Passes :
          ConfigureStep(p) =>
              /\ pass'[p].rebuilt =>
                    /\ MergedAs(p, pass'[p].rules.static, DEFAULT_STATIC_RULES, "staticRules")
                    /\ MergedAs(p, pass'[p].rules.token, DEFAULT_TOKEN_RULES, "tokenRules")
                    /\ MergedAs(p, pass'[p].rules.variant, DEFAULT_VARIANT_RULES,
                                "variantRules")
              /\ (lastSource # NONE /\ FlagsOf(pass[p].opts) # lastSource.defaultRules)
                    => /\ pass'[p].configHash # lastSource.configHash
                       /\ pass'[p].rebuilt]_vars

\* One pass has merged the defaults, a rules-file entry and an inline
\* entry, in that order; another, with the variant flag set to false, has
\* regenerated without built-in variants.
C24_Witness ==
    \E p, q \in Passes :
        /\ pc[p] = "done" /\ pc[q] = "done"
        /\ pass[p].rebuilt /\ pass[q].rebuilt
        /\ pass[p].rules.static =
              DEFAULT_STATIC_RULES \o RULES_1.staticRules \o OPTS_3.extend.staticRules
        /\ pass[q].opts = OPTS_2
        /\ pass[q].rules.variant = <<>>
        /\ pass[q].rules.static # <<>>
        /\ pass[p].configHash # pass[q].configHash

\* C25 as stated: when a pass completes and the cached universe is the one
\* kept under the hash of that pass, its lookup map and raw text are what
\* the generator produces from the token text, the media text, the merged
\* extensions and the defaultRules flags of that pass.
C25_UniverseCacheCoherence ==
    [][\A p \in Passes :
          (InjectStep(p) /\ universeCache'.configHash = pass'[p].configHash) =>
              LET built == generated(pass'[p].finalOpts, pass'[p].tokenCss,
                                     pass'[p].mediaCss)
              IN  /\ universeCache'.cssMap = built.map
                  /\ universeCache'.rawCss = join(built.raw, "\n")]_vars

\* The record of file f holds the classes of the present content of f as
\* the extractor of some pass returns them: the content has not changed
\* since the record was made.
RecordOfPresentContent(f) ==
    \E m \in Matchers :
        fileScanCache[f].classes = extracted(m, contentFiles[f].content)

\* C26 as stated: whenever a pass reuses the record of a file on a
\* modification-time hit, the content of the file being unchanged, the
\* reused classes are those the extractor of that pass, the default
\* matchers and the classMatcher list of the pass, returns on the content.
C26_ScanCacheAgreesWithMatchers ==
    [][\A p \in Passes :
          ScanStep(p) =>
              \A f \in ReachedFiles(p) :
                  (Fresh(f) /\ RecordOfPresentContent(f)) =>
                      Range(fileScanCache[f].classes) =
                          Range(extracted(pass[p].matchers, contentFiles[f].content))]_vars

\* The add calls of the run in the order build makes them: position, class
\* name and body.
AddCallsInOrder ==
    {<<i, universe.rules.static[i].class, universe.rules.static[i].css>> :
        i \in 1..Len(universe.rules.static)}
      \cup UNION {{<<CallsBefore(i) + e,
                     universe.rules.token[i].prefix \o CategoryOf(i)[e][1],
                     applyCss(universe.rules.token[i].css,
                              CategoryOf(i)[e][1], CategoryOf(i)[e][2])>> :
                      e \in 1..Len(CategoryOf(i))} :
                  i \in 1..Len(universe.rules.token)}

\* C27: when several rules produce a class name C, the lookup map holds
\* at C the base text of the rule processed last, and at every variant key
\* V:C a text of a variant named V around the body of that same rule; the
\* raw list holds the texts of all the rules, so it is longer than the map
\* has keys.
C27_ClassNameCollisions ==
    universe # NONE =>
        LET calls == AddCallsInOrder
        IN  /\ \A c \in calls :
                 (\A d \in calls : d[2] = c[2] => d[1] <= c[1]) =>
                     /\ universe.map[c[2]] = "." \o c[2] \o " { " \o c[3] \o " }"
                     /\ \A v \in ValidVariants :
                           \E w \in ValidVariants :
                               /\ universe.rules.variant[w].name
                                     = universe.rules.variant[v].name
                               /\ universe.map[universe.rules.variant[v].name
                                                  \o ":" \o c[2]]
                                     = Wrapped(universe.rules.variant[w], c[2], c[3])
            /\ \A c \in calls :
                  \E k \in 1..Len(universe.raw) :
                      universe.raw[k] = "." \o c[2] \o " { " \o c[3] \o " }"
            /\ (\E c, d \in calls : c[1] # d[1] /\ c[2] = d[2])
                  => Len(universe.raw) > Cardinality(DOMAIN universe.map)

\* The color rule and the border rule with prefix border- have both
\* produced border-2: the map holds the border rule's text, the raw list
\* both.
C27_Witness ==
    /\ universe # NONE
    /\ \E c, d \in AddCallsInOrder :
          /\ c[2] = "border-2" /\ d[2] = "border-2" /\ c[1] < d[1]
          /\ c[3] = "border-color: var(--color-2);"
          /\ d[3] = "border-width: var(--border-2);"
    /\ universe.map["border-2"] = ".border-2 { border-width: var(--border-2); }"
    /\ \E k \in 1..Len(universe.raw) :
          universe.raw[k] = ".border-2 { border-color: var(--color-2); }"
    /\ ValidVariants # {}

(***************************************************************************)
(* Properties of the order and of the sources of injection, under Spec.    *)
(***************************************************************************)

\* Where class c is discovered first in the scan of pass p: the position of
\* the first file, in glob order, whose record has c, and the position of
\* c in that record.
FirstFileOf(p, c) ==
    least({i \in 1..Len(pass[p].files) :
              c \in Range(fileScanCache'[pass[p].files[i]].classes)})

PositionIn(p, c) ==
    least({k \in 1..Len(fileScanCache'[pass[p].files[FirstFileOf(p, c)]].classes) :
              fileScanCache'[pass[p].files[FirstFileOf(p, c)]].classes[k] = c})

DiscoveredBefore(p, a, b) ==
    \/ FirstFileOf(p, a) < FirstFileOf(p, b)
    \/ FirstFileOf(p, a) = FirstFileOf(p, b) /\ PositionIn(p, a) < PositionIn(p, b)

\* C29: the used classes of a pass are kept in the order of their first
\* discovery, files in glob order and classes in the order of the record
\* of the file, and the injected rules are the texts of the used classes
\* that the universe has, in that order, one rule for a class.
C29_InjectionOrder ==
    [][\A p \in Passes :
          InjectStep(p) =>
              LET used == pass'[p].usedClasses
                  kept == SelectSeq(used, LAMBDA c : c \in DOMAIN universeCache.cssMap)
              IN  /\ \A x, y \in 1..Len(used) :
                        x < y => (used[x] # used[y]
                                    /\ DiscoveredBefore(p, used[x], used[y]))
                  /\ Len(pass'[p].injectLines) = Len(kept)
                  /\ \A i \in 1..Len(kept) :
                        pass'[p].injectLines[i] = universeCache.cssMap[kept[i]]]_vars

\* Two passes have worked with the same universe and the same used
\* classes, discovered in different orders: they have injected the same
\* rules in different orders, one of them not in the order of generation.
C29_Witness ==
    \E p, q \in Passes :
        /\ pc[p] = "done" /\ pc[q] = "done"
        /\ pass[p].queried = pass[q].queried
        /\ pass[p].queried = universeCache.configHash
        /\ Range(pass[p].usedClasses) = Range(pass[q].usedClasses)
        /\ pass[p].usedClasses # pass[q].usedClasses
        /\ Range(pass[p].injectLines) = Range(pass[q].injectLines)
        /\ pass[p].injectLines # pass[q].injectLines
        /\ Len(pass[q].injectLines) = 2
        /\ indexOf(universeCache.rawCss, pass[q].injectLines[2], 0)
              < indexOf(universeCache.rawCss, pass[q].injectLines[1], 0)

\* C30: the files of a pass are the existing files that its content globs
\* return, and at injection the used classes are the classes of the
\* records of exactly these files: a class that only a record of another
\* file holds is not a used class and its rule is not injected.
C30_OnlyMatchedFilesContribute ==
    [][\A p \in Passes :
          /\ (pc[p] = "globbing" /\ pc'[p] = "scanning") =>
                Range(pass'[p].files) =
                    {f \in Range(PATHS) :
                        /\ contentFiles[f] # NONE
                        /\ \E i \in 1..Len(pass[p].finalOpts.content) :
                               globMatch(pass[p].finalOpts.content[i], f)}
          /\ InjectStep(p) =>
                LET matched == Range(pass[p].files)
                    contributed == UNION {Range(fileScanCache'[f].classes) : f \in matched}
                IN  /\ matched \subseteq DOMAIN fileScanCache'
                    /\ Range(pass'[p].usedClasses) = contributed
                    /\ \A f \in (DOMAIN fileScanCache') \ matched :
                          \A c \in Range(fileScanCache'[f].classes) \ contributed :
                              /\ c \notin Range(pass'[p].usedClasses)
                              /\ c \in DOMAIN universeCache.cssMap =>
                                    universeCache.cssMap[c]
                                        \notin Range(pass'[p].injectLines)]_vars

\* Pass q has scanned file f, the file was deleted, and pass p has then
\* completed with no file: the record of f is still there with a class
\* that has a rule in the universe, and p has injected nothing.
C30_Witness ==
    \E p, q \in Passes, f \in DOMAIN fileScanCache :
        /\ p # q
        /\ pc[p] = "done" /\ pc[q] = "done"
        /\ f \in pass[q].filesRead
        /\ contentFiles[f] = NONE
        /\ pass[p].files = <<>>
        /\ \E c \in Range(fileScanCache[f].classes) :
              /\ c \in DOMAIN universeCache.cssMap
              /\ c \in Range(pass[q].usedClasses)
              /\ c \notin Range(pass[p].usedClasses)
        /\ pass[q].injectLines # <<>>
        /\ pass[p].injectLines = <<>>

(***************************************************************************)
(* Properties of the search loop, checked under SpecLoop.                  *)
(***************************************************************************)

\* C28 as stated: for every text and every classMatcher list, each
\* iteration of the search loop moves the search index forward, and the
\* call of extract comes to its end and returns its set.
C28_ExtractionTerminates ==
    /\ [][(call # NONE /\ call'.iterations > call.iterations)
             => call'.index > call.index]_vars
    /\ (call # NONE) ~> (ret # NONE)

====
